---- MODULE Spec2Model ----
(***************************************************************************)
(* Translation resolution engine of spring-i18n-ally (I18nManager):        *)
(* reload / lookup / write-back / delete over flat (.properties) and tree  *)
(* (.yml) translation files.                                               *)
(*                                                                         *)
(* Text is a sequence of one-character strings; offsets are 0-based as in  *)
(* the TypeScript source, Substring(t, a, b) is JS t.substring(a, b).      *)
(***************************************************************************)
EXTENDS Integers, Sequences, FiniteSets, TLC

LF  == "LF"      \* line feed
BSL == "BSL"     \* backslash
SP  == " "
EQ  == "="
DOT == "."
Ws  == {SP, LF}  \* what \s, trim() and trimEnd() strip

Min(S) == CHOOSE x \in S : \A y \in S : x <= y

Substring(t, a, b) == SubSeq(t, a + 1, b)

\* String.prototype.indexOf(ch, from) for a one-character needle
IndexOf(t, ch, from) ==
  LET hits == {i \in from..(Len(t) - 1) : t[i + 1] = ch}
  IN IF hits = {} THEN -1 ELSE Min(hits)

\* String.prototype.indexOf(sub): first occurrence, 0 for the empty needle
IndexOfSub(t, sub) ==
  LET hits == {i \in 0..(Len(t) - Len(sub)) : Substring(t, i, i + Len(sub)) = sub}
  IN IF hits = {} THEN -1 ELSE Min(hits)

EndsWith(t, ch) == Len(t) > 0 /\ t[Len(t)] = ch

RECURSIVE TrimEnd(_)
TrimEnd(t) == IF Len(t) > 0 /\ t[Len(t)] \in Ws THEN TrimEnd(SubSeq(t, 1, Len(t) - 1)) ELSE t

RECURSIVE TrimStart(_)
TrimStart(t) == IF Len(t) > 0 /\ t[1] \in Ws THEN TrimStart(Tail(t)) ELSE t

Trim(t) == TrimStart(TrimEnd(t))

\* first offset >= i that is not whitespace (Len(t) when there is none)
SkipWs(t, i) == Min({j \in i..Len(t) : j = Len(t) \/ t[j + 1] \notin Ws})

\* offset of the end of the line holding offset p, line break excluded
LineEnd(t, p) == IF IndexOf(t, LF, p) = -1 THEN Len(t) ELSE IndexOf(t, LF, p)

\* doc.offsetAt(doc.lineAt(doc.positionAt(p)).rangeIncludingLineBreak.end)
LineEndInclBreak(t, p) == IF IndexOf(t, LF, p) = -1 THEN Len(t) ELSE IndexOf(t, LF, p) + 1

\* new RegExp(`^\\s*${escapedKey}\\s*=(.*)$`, 'm') tried at offset i
KeyRegexAt(t, key, i) ==
  /\ (i = 0 \/ t[i] = LF)
  /\ LET j == SkipWs(t, i)
         e == SkipWs(t, j + Len(key))
     IN /\ j + Len(key) <= Len(t)
        /\ Substring(t, j, j + Len(key)) = key
        /\ e < Len(t)
        /\ t[e + 1] = EQ

\* text.match(regex): [found, index, m0 = match[0], m1 = match[1]]
KeyRegexMatch(t, key) ==
  LET starts == {i \in 0..Len(t) : KeyRegexAt(t, key, i)}
  IN IF starts = {} THEN [found |-> FALSE, index |-> -1, m0 |-> <<>>, m1 |-> <<>>]
     ELSE LET i  == Min(starts)
              e  == SkipWs(t, SkipWs(t, i) + Len(key))
              le == LineEnd(t, e + 1)
          IN [found |-> TRUE, index |-> i,
              m0 |-> Substring(t, i, le), m1 |-> Substring(t, e + 1, le)]

\* the while (true) loop of the flat branch of deleteKeyFromFile: the final endOffset
RECURSIVE FlatDeleteEnd(_, _, _, _)
FlatDeleteEnd(t, startOffset, endOffset, currentEnd) ==
  IF EndsWith(Substring(t, startOffset, currentEnd), BSL)
  THEN LET nextNewline == IndexOf(t, LF, currentEnd)
       IN IF nextNewline # -1
          THEN LET cur1        == nextNewline + 1
                   lineEnd     == IndexOf(t, LF, cur1)
                   lineContent == Substring(t, cur1, IF lineEnd # -1 THEN lineEnd ELSE Len(t))
                   cur2        == IF lineEnd # -1 THEN lineEnd + 1 ELSE Len(t)
               IN IF ~EndsWith(TrimEnd(lineContent), BSL)
                  THEN cur2
                  ELSE FlatDeleteEnd(t, startOffset, endOffset, cur2)
          ELSE Len(t)
  ELSE LET lineEndOffset == LineEndInclBreak(t, startOffset)
       IN IF endOffset < lineEndOffset THEN lineEndOffset ELSE endOffset

\* deleteKeyFromFile, .properties branch: the document text after the edit
DeleteKeyFlat(t, key) ==
  LET m == KeyRegexMatch(t, key)
  IN IF m.found
     THEN LET startOffset == m.index
              endOffset0  == m.index + Len(m.m0)
              endOffset   == FlatDeleteEnd(t, startOffset, endOffset0, endOffset0)
          IN Substring(t, 0, startOffset) \o Substring(t, endOffset, Len(t))
     ELSE t

\* writeTranslation, .properties branch: the document text after the edit
WriteFlat(t, key, value) ==
  LET m == KeyRegexMatch(t, key)
  IN IF m.found
     THEN LET startPos == m.index + IndexOfSub(m.m0, m.m1)
              endPos   == m.index + Len(m.m0)
          IN Substring(t, 0, startPos) \o value \o Substring(t, endPos, Len(t))
     ELSE LET insertion == IF EndsWith(t, LF) THEN key \o <<EQ>> \o value
                           ELSE <<LF>> \o key \o <<EQ>> \o value
          IN t \o insertion
(***************************************************************************)
(* Ordered maps: JavaScript objects and Maps keep insertion order, and a   *)
(* set() on an existing key keeps its position.  An ordered map is a       *)
(* sequence of [k, v] records with distinct k.                             *)
(***************************************************************************)
OMHas(m, k) == \E i \in 1..Len(m) : m[i].k = k

OMGet(m, k) == m[CHOOSE i \in 1..Len(m) : m[i].k = k].v

OMPut(m, k, v) ==
  IF OMHas(m, k)
  THEN [i \in 1..Len(m) |-> IF m[i].k = k THEN [k |-> k, v |-> v] ELSE m[i]]
  ELSE Append(m, [k |-> k, v |-> v])

OMKeys(m) == [i \in 1..Len(m) |-> m[i].k]

Range(s) == {s[i] : i \in 1..Len(s)}

\* key.split('.')
RECURSIVE Split(_)
Split(key) ==
  LET d == IndexOf(key, DOT, 0)
  IN IF d = -1 THEN <<key>>
     ELSE <<Substring(key, 0, d)>> \o Split(Substring(key, d + 1, Len(key)))

\* text.split('\n')
RECURSIVE SplitLines(_)
SplitLines(t) ==
  LET d == IndexOf(t, LF, 0)
  IN IF d = -1 THEN <<t>>
     ELSE <<Substring(t, 0, d)>> \o SplitLines(Substring(t, d + 1, Len(t)))

(***************************************************************************)
(* properties-reader, as the manager uses it: read(text) sets every        *)
(* `key=value` line (trimmed) over what the reader already holds, each()   *)
(* visits the keys in insertion order, get() is an exact lookup.           *)
(***************************************************************************)
\* one line of reader.read(): /^([^#=]+)(={0,1})(.*)$/ on the trimmed line
ReadLine(props, line) ==
  LET l == Trim(line)
      e == IndexOf(l, EQ, 0)
  IN IF Len(l) = 0 \/ e = 0 THEN props
     ELSE IF e = -1 THEN OMPut(props, l, <<>>)
     ELSE OMPut(props, Trim(Substring(l, 0, e)), Trim(Substring(l, e + 1, Len(l))))

RECURSIVE ReadLines(_, _)
ReadLines(props, lines) ==
  IF lines = <<>> THEN props ELSE ReadLines(ReadLine(props, Head(lines)), Tail(lines))

\* reader.read(content)
ReaderRead(props, content) == ReadLines(props, SplitLines(content))

(***************************************************************************)
(* Tree documents.  A document is a sequence of lines                      *)
(*   [kind, ind, key, t, s]: kind "kv" (`key:` at indent ind, t = "none",  *)
(*   or `key: scalar` with the scalar's resolved type t and text s),       *)
(*   "blank", "comment", or "bad" (text js-yaml cannot parse).             *)
(* A parsed mapping (YamlNode) is an ordered sequence of entries           *)
(*   [k, t, s, c]: t = "map" with children c, or a scalar leaf of type t   *)
(*   ("str", "num", "bool", "null") with text s.                           *)
(***************************************************************************)
KV(ind, key, t, s) == [kind |-> "kv", ind |-> ind, key |-> key, t |-> t, s |-> s]
Blank   == [kind |-> "blank", ind |-> 0, key |-> <<>>, t |-> "none", s |-> <<>>]
BadLine == [kind |-> "bad", ind |-> 0, key |-> <<>>, t |-> "none", s |-> <<>>]
CommentLine(ind) == [kind |-> "comment", ind |-> ind, key |-> <<>>, t |-> "none", s |-> <<>>]

Leaf(k, t, s) == [k |-> k, t |-> t, s |-> s, c |-> <<>>]
MapE(k, c)    == [k |-> k, t |-> "map", s |-> <<>>, c |-> c]

NHas(node, k) == \E i \in 1..Len(node) : node[i].k = k
NGet(node, k) == node[CHOOSE i \in 1..Len(node) : node[i].k = k]
NPut(node, e) ==
  IF NHas(node, e.k)
  THEN [i \in 1..Len(node) |-> IF node[i].k = e.k THEN e ELSE node[i]]
  ELSE Append(node, e)

\* yaml.load on the content lines (blank and comment lines dropped), all at
\* indent >= ind: [ok, node]; ok = FALSE stands for a thrown YAMLException
RECURSIVE ParseMap(_, _)
ParseMap(ls, ind) ==
  IF ls = <<>> THEN [ok |-> TRUE, node |-> <<>>]
  ELSE
    LET heads == {i \in 1..Len(ls) : ls[i].ind = ind}
        next(i) == IF \E j \in heads : j > i THEN Min({j \in heads : j > i}) ELSE Len(ls) + 1
        sub(i) == SubSeq(ls, i + 1, next(i) - 1)
        child(i) == ParseMap(sub(i), sub(i)[1].ind)
        wellFormed ==
          /\ 1 \in heads
          /\ \A i \in 1..Len(ls) : ls[i].ind >= ind
          /\ \A i, j \in heads : i # j => ls[i].key # ls[j].key
          /\ \A i \in heads : sub(i) # <<>> => (ls[i].t = "none" /\ child(i).ok)
        entry(i) == IF sub(i) # <<>> THEN MapE(ls[i].key, child(i).node)
                    ELSE IF ls[i].t = "none" THEN Leaf(ls[i].key, "null", <<>>)
                    ELSE Leaf(ls[i].key, ls[i].t, ls[i].s)
        RECURSIVE build(_)
        build(i) == IF i > Len(ls) THEN <<>> ELSE <<entry(i)>> \o build(next(i))
    IN IF wellFormed THEN [ok |-> TRUE, node |-> build(1)]
       ELSE [ok |-> FALSE, node |-> <<>>]

IsContent(l) == l.kind = "kv"

\* yaml.load(content) || {}
YamlLoad(doc) ==
  IF \E i \in 1..Len(doc) : doc[i].kind = "bad" THEN [ok |-> FALSE, node |-> <<>>]
  ELSE ParseMap(SelectSeq(doc, IsContent), 0)

\* yaml.dump(obj, { indent: 2 })
RECURSIVE DumpAt(_, _)
DumpAt(node, ind) ==
  IF node = <<>> THEN <<>>
  ELSE LET e == Head(node)
       IN (IF e.t = "map"
           THEN <<KV(ind, e.k, "none", <<>>)>> \o DumpAt(e.c, ind + 2)
           ELSE <<KV(ind, e.k, e.t, e.s)>>)
          \o DumpAt(Tail(node), ind)

YamlDump(node) == DumpAt(node, 0)

\* a descent that would return String(current) for every scalar reached
RECURSIVE GetYamlValueAnyScalar(_, _)
GetYamlValueAnyScalar(node, parts) ==
  IF ~NHas(node, Head(parts)) THEN <<>>
  ELSE LET e == NGet(node, Head(parts))
       IN IF Len(parts) = 1
          THEN (IF e.t # "map" THEN <<e.s>> ELSE <<>>)
          ELSE IF e.t = "map" THEN GetYamlValueAnyScalar(e.c, Tail(parts)) ELSE <<>>

\* getYamlValue: <<>> for undefined, <<text>> for a string or number leaf
RECURSIVE GetYamlValueParts(_, _)
GetYamlValueParts(node, parts) ==
  IF ~NHas(node, Head(parts)) THEN <<>>
  ELSE LET e == NGet(node, Head(parts))
       IN IF Len(parts) = 1
          THEN (IF e.t \in {"str", "num"} THEN <<e.s>> ELSE <<>>)
          ELSE IF e.t = "map" THEN GetYamlValueParts(e.c, Tail(parts)) ELSE <<>>

GetYamlValue(node, key) == GetYamlValueParts(node, Split(key))

\* collectYamlKeys: the dotted keys of all non-mapping leaves, in visiting order
RECURSIVE CollectYamlKeys(_, _)
CollectYamlKeys(node, prefix) ==
  IF node = <<>> THEN <<>>
  ELSE LET e == Head(node)
           fullKey == IF prefix # <<>> THEN prefix \o <<DOT>> \o e.k ELSE e.k
       IN (IF e.t = "map" THEN CollectYamlKeys(e.c, fullKey) ELSE <<fullKey>>)
          \o CollectYamlKeys(Tail(node), prefix)

\* deepMerge's side effect on its argument `source`:
\* Object.assign(source[key], deepMerge(targetVal, val))
RECURSIVE MergedSource(_, _)
MergedSource(target, source) ==
  [i \in 1..Len(source) |->
     LET e == source[i]
     IN IF e.t = "map" /\ NHas(target, e.k) /\ NGet(target, e.k).t = "map"
        THEN LET tc == NGet(target, e.k).c
                 v  == MergedSource(tc, e.c)
                 NotInV(x) == ~NHas(v, x.k)
             IN MapE(e.k, v \o SelectSeq(tc, NotInV))
        ELSE e]

\* deepMerge's result: { ...target, ...source }
DeepMerge(target, source) ==
  LET src == MergedSource(target, source)
      NotInTarget(x) == ~NHas(target, x.k)
  IN [i \in 1..Len(target) |-> IF NHas(src, target[i].k) THEN NGet(src, target[i].k) ELSE target[i]]
     \o SelectSeq(src, NotInTarget)

\* writeTranslation, tree branch: walk/create the mappings, set the leaf
RECURSIVE SetPath(_, _, _)
SetPath(node, parts, value) ==
  IF Len(parts) = 1 THEN NPut(node, Leaf(parts[1], "str", value))
  ELSE LET child == IF NHas(node, parts[1]) /\ NGet(node, parts[1]).t = "map"
                    THEN NGet(node, parts[1]).c ELSE <<>>
       IN NPut(node, MapE(parts[1], SetPath(child, Tail(parts), value)))

\* the document after writeTranslation's tree branch (yaml.load must succeed)
WriteTree(doc, key, value) == YamlDump(SetPath(YamlLoad(doc).node, Split(key), value))
\* findKeyLine's inner scan for the indent of the first child line (-1: none)
RECURSIVE NextIndent(_, _, _)
NextIndent(lines, j, indent) ==
  IF j > Len(lines) THEN -1
  ELSE IF lines[j].kind \in {"blank", "comment"} THEN NextIndent(lines, j + 1, indent)
  ELSE IF lines[j].ind > indent THEN lines[j].ind
  ELSE -1

\* findKeyLine(startLine, keyParts, indent); lines are numbered from 1 here
\* and 0 stands for the source's -1
RECURSIVE FindKeyLine(_, _, _, _)
FindKeyLine(lines, i, keyParts, indent) ==
  IF keyParts = <<>> \/ i > Len(lines) THEN 0
  ELSE LET l == lines[i]
       IN IF l.kind \in {"blank", "comment"} THEN FindKeyLine(lines, i + 1, keyParts, indent)
          ELSE IF l.ind < indent THEN 0
          ELSE IF l.ind > indent THEN FindKeyLine(lines, i + 1, keyParts, indent)
          ELSE IF l.kind = "kv" /\ l.key = keyParts[1]
          THEN IF Len(keyParts) = 1 THEN i
               ELSE LET nextIndent == NextIndent(lines, i + 1, indent)
                    IN IF nextIndent # -1
                       THEN FindKeyLine(lines, i + 1, Tail(keyParts), nextIndent)
                       ELSE 0
          ELSE FindKeyLine(lines, i + 1, keyParts, indent)

\* a deletion that would stop at the key's own line
KeyEndLineNoChildren(lines, i, keyIndent, keyEndLine) == keyEndLine

\* the last line of the block under keyStartLine ("Also remove children")
RECURSIVE KeyEndLine(_, _, _, _)
KeyEndLine(lines, i, keyIndent, keyEndLine) ==
  IF i > Len(lines) THEN keyEndLine
  ELSE IF lines[i].kind = "blank" THEN KeyEndLine(lines, i + 1, keyIndent, keyEndLine)
  ELSE IF lines[i].ind > keyIndent THEN KeyEndLine(lines, i + 1, keyIndent, i)
  ELSE keyEndLine

\* deleteKeyFromFile, tree branch: the document after the edit
DeleteKeyTree(lines, key) ==
  LET keyStartLine == FindKeyLine(lines, 1, Split(key), 0)
  IN IF keyStartLine # 0
     THEN LET keyEndLine == KeyEndLine(lines, keyStartLine + 1, lines[keyStartLine].ind, keyStartLine)
          IN SubSeq(lines, 1, keyStartLine - 1) \o SubSeq(lines, keyEndLine + 1, Len(lines))
     ELSE lines

(***************************************************************************)
(* The workspace: translation files by path.                               *)
(*   dir  "root"    src/main/resources/                                    *)
(*        "nested"  a directory below src/main/resources/                  *)
(*        "outside" any other directory of the workspace                   *)
(***************************************************************************)
FileInfo ==
  [F1 |-> [dir |-> "nested",  stem |-> "messages", loc |-> "en", ext |-> "properties"],
   F2 |-> [dir |-> "outside", stem |-> "messages", loc |-> "en", ext |-> "properties"],
   F3 |-> [dir |-> "root",    stem |-> "labels",   loc |-> "ko", ext |-> "yml"],
   F4 |-> [dir |-> "root",    stem |-> "messages", loc |-> "ko", ext |-> "properties"],
   F5 |-> [dir |-> "root",    stem |-> "messages", loc |-> "ko", ext |-> "yml"],
   F6 |-> [dir |-> "root",    stem |-> "messages", loc |-> "en", ext |-> "properties"],
   F7 |-> [dir |-> "root",    stem |-> "messages", loc |-> "en", ext |-> "yml"]]

Files == DOMAIN FileInfo

IsFlat(f) == FileInfo[f].ext = "properties"
IsTree(f) == FileInfo[f].ext \in {"yml", "yaml"}

\* processFile: the locale of a file name (the suffix, else `default`)
LocaleOf(f) == IF FileInfo[f].loc # "" THEN FileInfo[f].loc ELSE "default"

Locales == {LocaleOf(f) : f \in Files}

\* the four discovery globs of reloadProperties, and "B" for the basename lookup
Globs == {"G1", "G2", "G3", "G4"}

GlobMatches(g, f) ==
  LET i == FileInfo[f]
  IN CASE g = "G1" -> i.dir = "root" /\ i.stem = "messages"
       [] g = "G2" -> i.dir \in {"root", "nested"} /\ i.stem = "messages"
       [] g = "G3" -> i.stem = "message_"
       [] g = "G4" -> i.stem = "messages"
       [] g = "B"  -> i.dir = "root" /\ i.stem = "labels"

\* `src/main/resources/messages_${locale}.${ext}`, the path offered on creation
DefaultPath(locale, ext) ==
  CHOOSE f \in Files : /\ FileInfo[f].dir = "root" /\ FileInfo[f].stem = "messages"
                       /\ FileInfo[f].loc = locale /\ FileInfo[f].ext = ext
(***************************************************************************)
(* The index: locale -> CachedProperties.  NoStore stands for a locale     *)
(* that has no entry in the cache object.                                  *)
(***************************************************************************)
NoStore == [type |-> "none", reader |-> <<>>, keySource |-> <<>>, yamlObject |-> <<>>]

EmptyIndex == [l \in Locales |-> NoStore]

\* keySource.set(key, uri) for every key of keys, in order
RECURSIVE SetSources(_, _, _)
SetSources(keySource, keys, uri) ==
  IF keys = <<>> THEN keySource
  ELSE SetSources(OMPut(keySource, Head(keys), uri), Tail(keys), uri)

\* loadSingleFile, .properties branch
LoadFlat(cache, f, locale, content) ==
  LET old    == cache[locale]
      base   == IF old.type = "properties" THEN old.reader ELSE <<>>
      reader == ReaderRead(base, content)
      store  == IF old.type = "none"
                THEN [type |-> "properties", reader |-> reader, keySource |-> <<>>, yamlObject |-> <<>>]
                ELSE IF old.type = "properties" THEN [old EXCEPT !.reader = reader]
                ELSE old
  IN [cache EXCEPT ![locale] =
        [store EXCEPT !.keySource = SetSources(store.keySource, OMKeys(reader), f)]]

\* loadSingleFile, .yml/.yaml branch (yaml.load has succeeded with yamlObj)
LoadTree(cache, f, locale, yamlObj) ==
  LET old   == cache[locale]
      store == IF old.type = "none"
               THEN [type |-> "yaml", reader |-> <<>>, keySource |-> <<>>, yamlObject |-> yamlObj]
               ELSE IF old.type = "yaml"
               THEN [old EXCEPT !.yamlObject = DeepMerge(old.yamlObject, yamlObj)]
               ELSE old
      \* deepMerge has mutated yamlObj before its keys are collected
      seen  == IF old.type = "yaml" THEN MergedSource(old.yamlObject, yamlObj) ELSE yamlObj
  IN [cache EXCEPT ![locale] =
        IF store.type = "yaml" /\ yamlObj # <<>>
        THEN [store EXCEPT !.keySource = SetSources(store.keySource, CollectYamlKeys(seen, <<>>), f)]
        ELSE store]

\* does loadSingleFile throw on this file (caught by processFile)?
LoadThrows(f, content, unread) ==
  \/ f \in unread
  \/ IsTree(f) /\ ~YamlLoad(content).ok

LoadSingleFile(cache, f, locale, content) ==
  IF IsFlat(f) THEN LoadFlat(cache, f, locale, content)
  ELSE IF IsTree(f) THEN LoadTree(cache, f, locale, YamlLoad(content).node)
  ELSE cache

\* getTranslation on an index: <<>> is absent, <<v>> a value
GetTranslationIn(index, key, locale) ==
  LET cache == index[locale]
  IN IF cache.type = "properties"
     THEN (IF OMHas(cache.reader, key) THEN <<OMGet(cache.reader, key)>> ELSE <<>>)
     ELSE IF cache.type = "yaml" THEN GetYamlValue(cache.yamlObject, key)
     ELSE <<>>

\* getSourceFile on an index: <<>> is absent, <<f>> a file
GetSourceFileIn(index, key, locale) ==
  LET cache == index[locale]
  IN IF cache.type # "none" /\ OMHas(cache.keySource, key)
     THEN <<OMGet(cache.keySource, key)>> ELSE <<>>

\* UTF-16 code units of the characters used, for Array.prototype.sort()
CharCode(ch) ==
  CASE ch = SP -> 32 [] ch = DOT -> 46 [] ch = EQ -> 61 [] ch = BSL -> 92
    [] ch = "1" -> 49 [] ch = "2" -> 50 [] ch = "3" -> 51
    [] ch = "a" -> 97 [] ch = "b" -> 98 [] ch = "c" -> 99
    [] ch = "x" -> 120 [] ch = "y" -> 121 [] ch = "z" -> 122
    [] OTHER -> 10

RECURSIVE StrLess(_, _)
StrLess(a, b) ==
  IF b = <<>> THEN FALSE
  ELSE IF a = <<>> THEN TRUE
  ELSE IF CharCode(a[1]) # CharCode(b[1]) THEN CharCode(a[1]) < CharCode(b[1])
  ELSE StrLess(Tail(a), Tail(b))

\* Array.from(keys).sort()
RECURSIVE SortKeys(_)
SortKeys(S) ==
  IF S = {} THEN <<>>
  ELSE LET m == CHOOSE x \in S : \A y \in S \ {x} : StrLess(x, y)
       IN <<m>> \o SortKeys(S \ {m})

StoreKeys(cache) ==
  IF cache.type = "properties" THEN Range(OMKeys(cache.reader))
  ELSE IF cache.type = "yaml" THEN Range(CollectYamlKeys(cache.yamlObject, <<>>))
  ELSE {}

\* a listing that would sort each store's keys and put the lists one after another
GetAllKeysPerStore(index) ==
  LET RECURSIVE each(_)
      each(ls) == IF ls = {} THEN <<>>
                  ELSE LET l == CHOOSE x \in ls : TRUE
                       IN SortKeys(StoreKeys(index[l])) \o each(ls \ {l})
  IN each(Locales)

GetAllKeysIn(index) == SortKeys(UNION {StoreKeys(index[l]) : l \in Locales})
(***************************************************************************)
(* State                                                                   *)
(***************************************************************************)
VARIABLES
  workspaceFolders,  \* vscode.workspace.workspaceFolders is defined
  disk,              \* file -> content (flat: text, tree: document lines)
  exists,            \* the files present in the workspace
  unreadable,        \* files whose read fails (fs.readFile rejects)
  heap,              \* object id -> index: the cache objects alive
  propertiesCache,   \* I18nManager.propertiesCache: a reference into heap
  op,                \* slot -> the engine call running in it
  rl,                \* slot -> the reloadProperties() call of that op
  nOps,              \* engine calls started so far
  published,         \* history: the index as it was when last published
  pubRead,           \* history: file -> content as read by the publishing reload
  pubOrder,          \* history: locale -> the order the publishing reload merged its files in
  stable,            \* history: the publishing reload recovered from no error, and no
                     \* file has changed since it began
  input, output, phase   \* argument, result and position of a pure function under test

vars == <<workspaceFolders, disk, exists, unreadable, heap, propertiesCache, op, rl, nOps,
          published, pubRead, pubOrder, stable, input, output, phase>>

engineVars == <<workspaceFolders, disk, exists, unreadable, heap, propertiesCache, op, rl, nOps,
                published, pubRead, pubOrder, stable>>

MaxOps == 1          \* engine calls per behaviour, after the activation reload

Slots == DOMAIN op   \* the engine calls that may be in flight together

KeyA  == <<"a">>
KeyAB == <<"a", DOT, "b">>
ValX  == <<"x">>
ValY  == <<"y">>

WriteKeys   == {KeyA, KeyAB}
WriteValues == {<<>>, ValX}

NoReload ==
  [rpc |-> "none", n |-> 1, obj |-> 0, globs |-> [g \in Globs |-> "pending"], tasks |-> {},
   loaded |-> {}, readAs |-> <<>>, order |-> [l \in Locales |-> <<>>], found |-> {}, failed |-> {},
   scanFailed |-> FALSE, faulted |-> FALSE, fired |-> 0, seen |-> 0, idem |-> FALSE, clean |-> FALSE]

NoOp == [kind |-> "none", pc |-> "free", key |-> <<>>, locale |-> "", value |-> <<>>,
         uri |-> "", ext |-> "", tasks |-> {}, hadStore |-> FALSE, fromStable |-> FALSE]

InFlight(s) == rl[s].rpc \in {"stage1", "appscan", "appread", "lookup", "stage2", "ready"}

Idle(s) == op[s].pc \in {"free", "done", "failed", "noop"}

\* the published index, as every query reads it
Index == heap[propertiesCache]

getTranslation(key, locale) == GetTranslationIn(Index, key, locale)
getSourceFile(key, locale)  == GetSourceFileIn(Index, key, locale)
getAllKeys                  == GetAllKeysIn(Index)

\* a reload that would build into the object another running reload builds into
ObjectInUse ==
  IF \E s \in Slots : InFlight(s) THEN rl[CHOOSE s \in Slots : InFlight(s)].obj
  ELSE Min({i \in 0..Cardinality(DOMAIN heap) : i \notin DOMAIN heap})

FreshObj == Min({i \in 0..Cardinality(DOMAIN heap) : i \notin DOMAIN heap})

\* a reload that would build into the published object itself
NewCacheAliased(fresh) == propertiesCache

\* const newCache = {}: the object the reload builds into
NewCache(fresh) == fresh

\* keep only the cache objects something still refers to
Collect(h, refs) == [o \in (DOMAIN h) \cap refs |-> h[o]]

Refs(r) == {propertiesCache} \cup {r[s].obj : s \in {x \in Slots : r[x].rpc \in
              {"stage1", "appscan", "appread", "lookup", "stage2", "ready"}}}

\* reloadProperties() up to its first await, called from slot s; base is rl
\* after the caller's own effects, st whether the published index is current
BeginReload(base, st, s, n) ==
  IF ~workspaceFolders
  THEN /\ rl' = [base EXCEPT ![s] = [NoReload EXCEPT !.rpc = "returned", !.n = n]]
       /\ heap' = heap
  ELSE LET obj == NewCache(FreshObj)
       IN /\ rl' = [base EXCEPT ![s] = [NoReload EXCEPT !.rpc = "stage1", !.n = n, !.obj = obj,
                                          !.clean = TRUE,
                                          !.idem = st /\ \A x \in Slots : ~InFlight(x)]]
          /\ heap' = IF obj \in DOMAIN heap THEN heap
                     ELSE [o \in DOMAIN heap \cup {obj} |-> IF o = obj THEN EmptyIndex ELSE heap[o]]

\* a file on disk changes: running reloads and the published index are no longer current
Touch(r) == [s \in Slots |-> [r[s] EXCEPT !.idem = FALSE, !.clean = FALSE]]

F1Text == <<"a", EQ, "x", LF>>
F2Text == <<"a", EQ, LF, "b", EQ, "y", LF>>
F3Doc  == <<KV(0, KeyA, "none", <<>>), KV(2, <<"b">>, "str", ValX)>>
F3Bad  == <<BadLine>>

InitialFiles == {"F1", "F2", "F3"}

\* the engine after activation, with room for the calls of slots
EngineInit(slots) ==
  /\ workspaceFolders \in BOOLEAN
  /\ exists = InitialFiles
  /\ \E broken \in BOOLEAN :
       /\ disk = [f \in Files |-> CASE f = "F1" -> F1Text [] f = "F2" -> F2Text
                                   [] f = "F3" -> (IF broken THEN F3Bad ELSE F3Doc)
                                   [] OTHER -> <<>>]
       /\ unreadable = IF broken THEN {"F2"} ELSE {}
  /\ propertiesCache = 0
  /\ published = EmptyIndex
  /\ pubRead = <<>>
  /\ pubOrder = [l \in Locales |-> <<>>]
  /\ stable = FALSE
  /\ nOps = 0
  \* activate() has called manager.reloadProperties()
  /\ op = [s \in slots |-> IF s = 1 THEN [NoOp EXCEPT !.kind = "reload", !.pc = "reloading"] ELSE NoOp]
  /\ rl = [s \in slots |->
             IF s = 1 /\ workspaceFolders THEN [NoReload EXCEPT !.rpc = "stage1", !.obj = NewCache(1), !.clean = TRUE]
             ELSE IF s = 1 THEN [NoReload EXCEPT !.rpc = "returned"] ELSE NoReload]
  /\ heap = IF workspaceFolders THEN [o \in {0, NewCache(1)} |-> EmptyIndex] ELSE [o \in {0} |-> EmptyIndex]

Init ==
  /\ EngineInit({1})
  /\ input = <<>> /\ output = <<>> /\ phase = "engine"
(***************************************************************************)
(* reloadProperties                                                        *)
(***************************************************************************)
\* processFile up to its await, for the files a findFiles call returned:
\* a file already in loadedFiles is skipped, the others start loading
StartLoads(r, g, files) ==
  [r EXCEPT !.tasks = @ \cup {<<g, f>> : f \in files \ r.loaded},
            !.found = @ \cup files]

\* the reload call rejects because a directory scan failed; what it had built is dropped
Rejected(r) == [NoReload EXCEPT !.rpc = "rejected", !.n = r.n, !.scanFailed = TRUE]

\* a processFile without its try / catch: the load error rejects the reload
RejectOnLoadError(r, t) == [NoReload EXCEPT !.rpc = "rejected", !.n = r.n, !.failed = {t[2]}]

\* processFile's catch: the error is logged, the file is not added to loadedFiles
CatchLoadError(r, t) == [r EXCEPT !.tasks = @ \ {t}, !.failed = @ \cup {t[2]}, !.faulted = TRUE]

\* findFiles(glob) resolves inside findAndLoad
GlobResolve(s, g) ==
  /\ rl[s].rpc = "stage1"
  /\ rl[s].globs[g] = "pending"
  /\ rl' = [rl EXCEPT ![s] =
              StartLoads([rl[s] EXCEPT !.globs[g] = "resolved"], g,
                         {f \in exists : GlobMatches(g, f)})]
  /\ UNCHANGED <<workspaceFolders, disk, exists, unreadable, heap, propertiesCache, op, nOps,
                 published, pubRead, pubOrder, stable, input, output, phase>>

\* findFiles(glob) rejects inside findAndLoad: Promise.all rejects, and so does the reload
GlobFail(s, g) ==
  /\ rl[s].rpc = "stage1"
  /\ rl[s].globs[g] = "pending"
  /\ rl' = [rl EXCEPT ![s] = Rejected(rl[s])]
  /\ heap' = Collect(heap, Refs(rl'))
  /\ UNCHANGED <<workspaceFolders, disk, exists, unreadable, propertiesCache, op, nOps,
                 published, pubRead, pubOrder, stable, input, output, phase>>

\* fs.readFile of one processFile call completes: loadSingleFile merges the
\* file into newCache, or throws into processFile's catch
LoadFile(s, t) ==
  /\ InFlight(s)
  /\ t \in rl[s].tasks
  /\ LET f == t[2]
         r == rl[s]
     IN IF LoadThrows(f, disk[f], unreadable)
        THEN /\ rl' = [rl EXCEPT ![s] = CatchLoadError(r, t)]
             /\ heap' = IF rl'[s].rpc = "rejected" THEN Collect(heap, Refs(rl')) ELSE heap
        ELSE /\ heap' = [heap EXCEPT ![r.obj] = LoadSingleFile(@, f, LocaleOf(f), disk[f])]
             /\ rl' = [rl EXCEPT ![s] =
                         [r EXCEPT !.tasks = @ \ {t},
                                   !.loaded = @ \cup {f},
                                   !.order[LocaleOf(f)] = IF f \in Range(@) THEN @ ELSE Append(@, f),
                                   !.readAs = [x \in DOMAIN r.readAs \cup {f} |->
                                                 IF x = f THEN disk[f] ELSE r.readAs[x]]]]
  /\ UNCHANGED <<workspaceFolders, disk, exists, unreadable, propertiesCache, op, nOps,
                 published, pubRead, pubOrder, stable, input, output, phase>>

\* the Promise.all over the four findAndLoad calls resolves; the scan for
\* application.{properties,yml,yaml} starts
Stage1Join(s) ==
  /\ rl[s].rpc = "stage1"
  /\ \A g \in Globs : rl[s].globs[g] = "resolved"
  /\ rl[s].tasks = {}
  /\ rl' = [rl EXCEPT ![s].rpc = "appscan"]
  /\ UNCHANGED <<workspaceFolders, disk, exists, unreadable, heap, propertiesCache, op, nOps,
                 published, pubRead, pubOrder, stable, input, output, phase>>

\* findFiles('**/application.{properties,yml,yaml}') resolves with the one config file
AppScanResolve(s) ==
  /\ rl[s].rpc = "appscan"
  /\ rl' = [rl EXCEPT ![s].rpc = "appread"]
  /\ UNCHANGED <<workspaceFolders, disk, exists, unreadable, heap, propertiesCache, op, nOps,
                 published, pubRead, pubOrder, stable, input, output, phase>>

\* ... or rejects: it is awaited outside any try, the reload rejects
AppScanFail(s) ==
  /\ rl[s].rpc = "appscan"
  /\ rl' = [rl EXCEPT ![s] = Rejected(rl[s])]
  /\ heap' = Collect(heap, Refs(rl'))
  /\ UNCHANGED <<workspaceFolders, disk, exists, unreadable, propertiesCache, op, nOps,
                 published, pubRead, pubOrder, stable, input, output, phase>>

\* the config file is read: spring.messages.basename=labels, its lookup starts
AppRead(s) ==
  /\ rl[s].rpc = "appread"
  /\ rl' = [rl EXCEPT ![s].rpc = "lookup"]
  /\ UNCHANGED <<workspaceFolders, disk, exists, unreadable, heap, propertiesCache, op, nOps,
                 published, pubRead, pubOrder, stable, input, output, phase>>

\* reading the config file fails: caught and logged, the loop is over
AppReadFail(s) ==
  /\ rl[s].rpc = "appread"
  /\ rl' = [rl EXCEPT ![s] = [@ EXCEPT !.rpc = "ready", !.faulted = TRUE]]
  /\ UNCHANGED <<workspaceFolders, disk, exists, unreadable, heap, propertiesCache, op, nOps,
                 published, pubRead, pubOrder, stable, input, output, phase>>

\* findFiles(`src/main/resources/${normalized}*...`) resolves
LookupResolve(s) ==
  /\ rl[s].rpc = "lookup"
  /\ rl' = [rl EXCEPT ![s] =
              StartLoads([rl[s] EXCEPT !.rpc = "stage2"], "B",
                         {f \in exists : GlobMatches("B", f)})]
  /\ UNCHANGED <<workspaceFolders, disk, exists, unreadable, heap, propertiesCache, op, nOps,
                 published, pubRead, pubOrder, stable, input, output, phase>>

\* ... or rejects inside the try of the config loop: caught and logged
LookupFail(s) ==
  /\ rl[s].rpc = "lookup"
  /\ rl' = [rl EXCEPT ![s] = [@ EXCEPT !.rpc = "ready", !.scanFailed = TRUE]]
  /\ UNCHANGED <<workspaceFolders, disk, exists, unreadable, heap, propertiesCache, op, nOps,
                 published, pubRead, pubOrder, stable, input, output, phase>>

\* the Promise.all over the looked-up files resolves
Stage2Join(s) ==
  /\ rl[s].rpc = "stage2"
  /\ rl[s].tasks = {}
  /\ rl' = [rl EXCEPT ![s].rpc = "ready"]
  /\ UNCHANGED <<workspaceFolders, disk, exists, unreadable, heap, propertiesCache, op, nOps,
                 published, pubRead, pubOrder, stable, input, output, phase>>

\* a fire() placed before the assignment: the listener reads the old reference
FireBeforePublish(oldRef, newRef) == oldRef

\* this._onDidChange.fire() runs after the assignment: the reference a
\* listener reads while it handles the event
FireAfterPublish(oldRef, newRef) == newRef

\* this.propertiesCache = newCache; this._onDidChange.fire()
Publish(s) ==
  /\ rl[s].rpc = "ready"
  /\ propertiesCache' = rl[s].obj
  /\ rl' = [x \in Slots |->
              IF x = s THEN [rl[s] EXCEPT !.rpc = "done", !.fired = @ + 1,
                                          !.seen = FireAfterPublish(propertiesCache, rl[s].obj),
                                          !.globs = NoReload.globs,
                                          !.readAs = <<>>, !.order = NoReload.order]
              ELSE [rl[x] EXCEPT !.idem = FALSE]]
  /\ heap' = Collect(heap, {rl[s].obj} \cup {rl[x].obj : x \in {y \in Slots \ {s} : InFlight(y)}})
  /\ published' = heap[rl[s].obj]
  /\ pubRead' = rl[s].readAs
  /\ pubOrder' = rl[s].order
  /\ stable' = (rl[s].clean /\ ~rl[s].faulted /\ ~rl[s].scanFailed)
  /\ UNCHANGED <<workspaceFolders, disk, exists, unreadable, op, nOps, input, output, phase>>
(***************************************************************************)
(* The engine calls: refresh, deleteKey, writeTranslation                  *)
(***************************************************************************)
\* the refresh command or a file watcher calls reloadProperties()
StartReload(s) ==
  /\ Idle(s) /\ nOps < MaxOps
  /\ nOps' = nOps + 1
  /\ op' = [op EXCEPT ![s] = [NoOp EXCEPT !.kind = "reload", !.pc = "reloading"]]
  /\ BeginReload(rl, stable, s, 1)
  /\ UNCHANGED <<workspaceFolders, disk, exists, unreadable, propertiesCache,
                 published, pubRead, pubOrder, stable, input, output, phase>>

\* `await this.reloadProperties()` returns to its caller, or throws into it
Resume(s) ==
  /\ op[s].pc = "reloading"
  /\ rl[s].rpc \in {"done", "rejected", "returned"}
  /\ op' = [op EXCEPT ![s].pc =
              IF op[s].kind = "write" /\ rl[s].n = 0
              THEN (IF rl[s].rpc = "rejected" THEN "noop" ELSE "edit")
              ELSE (IF rl[s].rpc = "rejected" THEN "failed" ELSE "done")]
  /\ UNCHANGED <<workspaceFolders, disk, exists, unreadable, heap, propertiesCache, rl, nOps,
                 published, pubRead, pubOrder, stable, input, output, phase>>

\* deleteKey's loop: one deleteKeyFromFile per locale whose keySource has the key
DeleteTasks(key) ==
  {<<l, getSourceFile(key, l)[1]>> : l \in {x \in Locales : Index[x].type # "none"
                                                          /\ getSourceFile(key, x) # <<>>}}

\* deleteKey(key) up to its Promise.all
StartDelete(s, key) ==
  /\ Idle(s) /\ nOps < MaxOps
  /\ nOps' = nOps + 1
  /\ op' = [op EXCEPT ![s] = [NoOp EXCEPT !.kind = "delete", !.pc = "deleting", !.key = key,
                                          !.fromStable = stable,
                                          !.tasks = DeleteTasks(key)]]
  /\ rl' = [rl EXCEPT ![s] = NoReload]
  /\ UNCHANGED <<workspaceFolders, disk, exists, unreadable, heap, propertiesCache,
                 published, pubRead, pubOrder, stable, input, output, phase>>

\* deleteKeyFromFile(uri, key): open the document, delete the range, save
DeleteKeyFromFile(s, t) ==
  /\ op[s].pc = "deleting"
  /\ t \in op[s].tasks
  /\ LET f == t[2]
     IN disk' = [disk EXCEPT ![f] = IF IsFlat(f) THEN DeleteKeyFlat(@, op[s].key)
                                     ELSE IF IsTree(f) THEN DeleteKeyTree(@, op[s].key)
                                     ELSE @]
  /\ op' = [op EXCEPT ![s].tasks = @ \ {t}]
  /\ rl' = Touch(rl)
  /\ stable' = FALSE
  /\ UNCHANGED <<workspaceFolders, exists, unreadable, heap, propertiesCache, nOps,
                 published, pubRead, pubOrder, input, output, phase>>

\* a deleteKey that would reload without awaiting its deletions
DeleteJoinEarly(s) ==
  /\ op[s].pc = "deleting"
  /\ op' = [op EXCEPT ![s].pc = "reloading"]
  /\ BeginReload(rl, stable, s, 1)
  /\ UNCHANGED <<workspaceFolders, disk, exists, unreadable, propertiesCache, nOps,
                 published, pubRead, pubOrder, stable, input, output, phase>>

\* Promise.all(tasks) resolves; deleteKey reloads
DeleteJoin(s) ==
  /\ op[s].pc = "deleting"
  /\ op[s].tasks = {}
  /\ op' = [op EXCEPT ![s].pc = "reloading"]
  /\ BeginReload(rl, stable, s, 1)
  /\ UNCHANGED <<workspaceFolders, disk, exists, unreadable, propertiesCache, nOps,
                 published, pubRead, pubOrder, stable, input, output, phase>>

\* writeTranslation's choice of the file to edit ("" when it has to be created)
TargetUri(key, locale) ==
  IF getSourceFile(key, locale) # <<>> THEN getSourceFile(key, locale)[1]
  ELSE IF Index[locale].type # "none" /\ Len(Index[locale].keySource) > 0
  THEN Index[locale].keySource[1].v
  ELSE ""

\* writeTranslation(key, locale, value) up to its first await
StartWrite(s, key, locale, value) ==
  /\ Idle(s) /\ nOps < MaxOps
  /\ nOps' = nOps + 1
  /\ op' = [op EXCEPT ![s] =
              [NoOp EXCEPT !.kind = "write", !.key = key, !.locale = locale, !.value = value,
                           !.uri = TargetUri(key, locale),
                           !.hadStore = Index[locale].type # "none",
                           !.fromStable = stable,
                           !.pc = IF TargetUri(key, locale) # "" THEN "edit" ELSE "prompt"]]
  /\ rl' = [rl EXCEPT ![s] = NoReload]
  /\ UNCHANGED <<workspaceFolders, disk, exists, unreadable, heap, propertiesCache,
                 published, pubRead, pubOrder, stable, input, output, phase>>

CreateOptions == {"Yes (properties)", "Yes (yaml)", "No", "dismissed"}

Declining == {"No", "dismissed"}

\* a write that would fall through to its final reload when the user declines
PromptFallsThrough(s, createOption) ==
  /\ op[s].pc = "prompt"
  /\ IF createOption \in {"No", "dismissed"} \/ ~workspaceFolders
     THEN /\ op' = [op EXCEPT ![s].pc = "reloading"]
          /\ BeginReload(rl, FALSE, s, 1)
     ELSE /\ op' = [op EXCEPT ![s] =
                      [@ EXCEPT !.pc = "input",
                                !.ext = IF createOption = "Yes (yaml)" THEN "yml" ELSE "properties"]]
          /\ UNCHANGED <<heap, rl>>
  /\ UNCHANGED <<workspaceFolders, disk, exists, unreadable, propertiesCache, nOps,
                 published, pubRead, pubOrder, stable, input, output, phase>>

\* showWarningMessage(createMsg, ...) resolves with the user's answer
Prompt(s, createOption) ==
  /\ op[s].pc = "prompt"
  /\ op' = [op EXCEPT ![s] =
              IF createOption \in {"No", "dismissed"} \/ ~workspaceFolders
              THEN [@ EXCEPT !.pc = "noop"]
              ELSE [@ EXCEPT !.pc = "input",
                             !.ext = IF createOption = "Yes (yaml)" THEN "yml" ELSE "properties"]]
  /\ UNCHANGED <<workspaceFolders, disk, exists, unreadable, heap, propertiesCache, rl, nOps,
                 published, pubRead, pubOrder, stable, input, output, phase>>

\* showInputBox resolves: the offered path is accepted, or nothing is entered
InputBox(s, accepted) ==
  /\ op[s].pc = "input"
  /\ op' = [op EXCEPT ![s] =
              IF accepted THEN [@ EXCEPT !.pc = "create", !.uri = DefaultPath(op[s].locale, op[s].ext)]
              ELSE [@ EXCEPT !.pc = "noop"]]
  /\ UNCHANGED <<workspaceFolders, disk, exists, unreadable, heap, propertiesCache, rl, nOps,
                 published, pubRead, pubOrder, stable, input, output, phase>>

\* fs.mkdir and fs.writeFile(targetPath, '') succeed; the first reload of the write starts
CreateFile(s) ==
  /\ op[s].pc = "create"
  /\ disk' = [disk EXCEPT ![op[s].uri] = <<>>]
  /\ exists' = exists \cup {op[s].uri}
  /\ op' = [op EXCEPT ![s].pc = "reloading"]
  /\ stable' = FALSE
  /\ BeginReload(Touch(rl), FALSE, s, 0)
  /\ UNCHANGED <<workspaceFolders, unreadable, propertiesCache, nOps,
                 published, pubRead, pubOrder, input, output, phase>>

\* fs.mkdir or fs.writeFile throws: the catch shows the error and returns
CreateFail(s) ==
  /\ op[s].pc = "create"
  /\ op' = [op EXCEPT ![s].pc = "noop"]
  /\ UNCHANGED <<workspaceFolders, disk, exists, unreadable, heap, propertiesCache, rl, nOps,
                 published, pubRead, pubOrder, stable, input, output, phase>>

\* the edit of writeTranslation: the document is opened (or read), changed and
\* saved, then the final reload starts; an unreadable or unparsable file throws
EditFile(s) ==
  /\ op[s].pc = "edit"
  /\ LET f == op[s].uri
     IN IF f \in unreadable \/ (IsTree(f) /\ ~YamlLoad(disk[f]).ok)
        THEN /\ op' = [op EXCEPT ![s].pc = "failed"]
             /\ UNCHANGED <<disk, rl, heap, stable>>
        ELSE /\ disk' = [disk EXCEPT ![f] =
                           IF IsFlat(f) THEN WriteFlat(@, op[s].key, op[s].value)
                           ELSE WriteTree(@, op[s].key, op[s].value)]
             /\ op' = [op EXCEPT ![s].pc = "reloading"]
             /\ stable' = FALSE
             /\ BeginReload(Touch(rl), FALSE, s, 1)
  /\ UNCHANGED <<workspaceFolders, exists, unreadable, propertiesCache, nOps,
                 published, pubRead, pubOrder, input, output, phase>>

ReloadStep(s) ==
  \/ \E g \in Globs : GlobResolve(s, g)
  \/ \E g \in Globs : GlobFail(s, g)
  \/ \E t \in rl[s].tasks : LoadFile(s, t)
  \/ Stage1Join(s)
  \/ AppScanResolve(s)
  \/ AppScanFail(s)
  \/ AppRead(s)
  \/ AppReadFail(s)
  \/ LookupResolve(s)
  \/ LookupFail(s)
  \/ Stage2Join(s)
  \/ Publish(s)

Next ==
  \E s \in {1} :
    \/ ReloadStep(s)
    \/ Resume(s)
    \/ StartReload(s)
    \/ \E k \in WriteKeys : StartDelete(s, k)
    \/ \E t \in op[s].tasks : DeleteKeyFromFile(s, t)
    \/ DeleteJoin(s)
    \/ \E k \in WriteKeys, l \in Locales, v \in WriteValues : StartWrite(s, k, l, v)
    \/ \E o \in Declining : Prompt(s, o)
    \/ EditFile(s)

\* the engine with a user who declines to create missing translation files
Spec == Init /\ [][Next]_vars

NextCreate ==
  \/ Next
  \/ \E s \in {1} :
       \/ \E o \in CreateOptions \ Declining : Prompt(s, o)
       \/ \E a \in BOOLEAN : InputBox(s, a)
       \/ CreateFile(s)
       \/ CreateFail(s)

\* the engine with a user who may also accept the creation of a missing file
SpecCreate == Init /\ [][NextCreate]_vars

InitOverlap ==
  /\ EngineInit({1, 2})
  /\ input = <<>> /\ output = <<>> /\ phase = "engine"

NextOverlap ==
  \E s \in {1, 2} :
    \/ ReloadStep(s)
    \/ Resume(s)
    \/ StartReload(s)

\* reloads only, where a file watcher may call reloadProperties() while
\* another reload is still running
SpecOverlap == InitOverlap /\ [][NextOverlap]_vars
(***************************************************************************)
(* Deleting a key from flat text, as a function of the text               *)
(***************************************************************************)
MaxLines == 3        \* physical lines of a flat text under test

KeyB == <<"b">>

LinePool ==
  { <<"a", EQ, "1">>, <<"b", EQ, "2">>, <<"b", EQ, "2", BSL>>, <<"3", BSL>>, <<"3">>, <<>> }

RECURSIVE JoinLines(_)
JoinLines(ls) == IF ls = <<>> THEN <<>> ELSE Head(ls) \o <<LF>> \o JoinLines(Tail(ls))

LineSeqs == UNION {[1..n -> LinePool] : n \in 1..MaxLines}

\* every line of a text under test ends in a line break
FlatTexts == {JoinLines(ls) : ls \in LineSeqs}

\* an engine that is not running: no workspace, nothing loaded
EngineOff ==
  /\ workspaceFolders = FALSE
  /\ exists = {}
  /\ disk = [f \in Files |-> <<>>]
  /\ unreadable = {}
  /\ propertiesCache = 0
  /\ heap = [o \in {0} |-> EmptyIndex]
  /\ published = EmptyIndex
  /\ pubRead = <<>>
  /\ pubOrder = [l \in Locales |-> <<>>]
  /\ stable = FALSE
  /\ nOps = 0
  /\ op = [s \in {1} |-> NoOp]
  /\ rl = [s \in {1} |-> NoReload]

InitFlatDelete ==
  /\ EngineOff
  /\ input \in FlatTexts
  /\ output = <<>>
  /\ phase = "text"

\* deleteKeyFromFile(uri, 'b') on a .properties document holding the text
ApplyFlatDelete ==
  /\ phase = "text"
  /\ output' = DeleteKeyFlat(input, KeyB)
  /\ phase' = "deleted"
  /\ UNCHANGED <<input, engineVars>>

SpecFlatDelete == InitFlatDelete /\ [][ApplyFlatDelete]_vars

(***************************************************************************)
(* Deleting a key from a tree document, as a function of its lines         *)
(***************************************************************************)
MaxTreeLines == 4    \* lines of a tree document under test

KeyAC  == <<"a", DOT, "c">>
KeyACB == <<"a", DOT, "c", DOT, "b">>

TreeLinePool ==
  { KV(0, <<"a">>, "none", <<>>), KV(0, <<"b">>, "str", <<"x">>), KV(2, <<"b">>, "str", <<"x">>),
    KV(2, <<"c">>, "none", <<>>), KV(4, <<"b">>, "str", <<"x">>), Blank, CommentLine(0) }

TreeDocs == UNION {[1..n -> TreeLinePool] : n \in 1..MaxTreeLines}

TreeDeleteKeys == {KeyA, KeyAB, KeyAC, KeyACB, <<"b">>}

InitTreeDelete ==
  /\ EngineOff
  /\ input \in [doc : TreeDocs, key : TreeDeleteKeys]
  /\ output = <<>>
  /\ phase = "tree"

\* deleteKeyFromFile(uri, key) on a .yml document holding the lines
ApplyTreeDelete ==
  /\ phase = "tree"
  /\ output' = DeleteKeyTree(input.doc, input.key)
  /\ phase' = "treeDeleted"
  /\ UNCHANGED <<input, engineVars>>

SpecTreeDelete == InitTreeDelete /\ [][ApplyTreeDelete]_vars

(***************************************************************************)
(* Writing a value into flat text, as a function of the text               *)
(***************************************************************************)
WriteLinePool ==
  { <<"a", EQ>>, <<"a", EQ, "a">>, <<"a", EQ, "x">>, <<SP, "a", EQ, "y">>, <<"b", EQ, "y">>, <<>> }

WriteTexts == {JoinLines(ls) : ls \in UNION {[1..n -> WriteLinePool] : n \in 1..MaxLines}}

InitFlatWrite ==
  /\ EngineOff
  /\ input \in [text : WriteTexts, value : WriteValues]
  /\ output = <<>>
  /\ phase = "flat"

\* writeTranslation('a', locale, value) on a .properties document holding the text
ApplyFlatWrite ==
  /\ phase = "flat"
  /\ output' = WriteFlat(input.text, KeyA, input.value)
  /\ phase' = "flatWritten"
  /\ UNCHANGED <<input, engineVars>>

SpecFlatWrite == InitFlatWrite /\ [][ApplyFlatWrite]_vars

(***************************************************************************)
(* Properties                                                              *)
(***************************************************************************)
(* The queries as functions of the index: getTranslation and getAllKeys    *)
(* applied to every index whose two locales each hold no store, a flat     *)
(* store or a tree store drawn from the pools below.                       *)
(***************************************************************************)
KeyABC == <<"a", DOT, "b", DOT, "c">>
KeyC   == <<"c">>

\* what a tree file's key `a` can hold
QueryValuesOfA ==
  {<<Leaf(<<"a">>, tp, <<"1">>)>> : tp \in {"str", "num", "bool"}}
    \cup {<<Leaf(<<"a">>, "null", <<>>)>>, <<>>}
    \cup {<<MapE(<<"a">>, <<Leaf(<<"b">>, tp, <<"1">>)>>)>> : tp \in {"str", "num", "bool"}}
    \cup {<<MapE(<<"a">>, c)>> :
            c \in {<<>>, <<Leaf(<<"b">>, "null", <<>>)>>,
                   <<MapE(<<"b">>, <<Leaf(<<"c">>, "str", ValX)>>)>>,
                   <<Leaf(<<"c">>, "str", ValY), Leaf(<<"b">>, "str", ValX)>>}}

QueryNodes == {b \o a : b \in {<<>>, <<Leaf(<<"c">>, "str", ValY)>>}, a \in QueryValuesOfA}

QueryReaders ==
  {<<>>, <<[k |-> KeyAB, v |-> ValX]>>,
   <<[k |-> KeyC, v |-> ValY], [k |-> KeyAB, v |-> ValX], [k |-> KeyA, v |-> <<>>]>>}

QueryStores ==
  {NoStore}
    \cup {[type |-> "properties", reader |-> r, keySource |-> <<>>, yamlObject |-> <<>>] :
            r \in QueryReaders}
    \cup {[type |-> "yaml", reader |-> <<>>, keySource |-> <<>>, yamlObject |-> n] :
            n \in QueryNodes}

AskedKeys == {KeyA, KeyAB, KeyABC, KeyAC, KeyC}

InitQuery ==
  /\ EngineOff
  /\ input \in [index : [Locales -> QueryStores], key : AskedKeys, locale : Locales]
  /\ output = <<>>
  /\ phase = "query"

\* getTranslation(key, locale)
ApplyGetTranslation ==
  /\ phase = "query"
  /\ output' = GetTranslationIn(input.index, input.key, input.locale)
  /\ phase' = "got"
  /\ UNCHANGED <<engineVars, input>>

\* getAllKeys()
ApplyGetAllKeys ==
  /\ phase = "query"
  /\ output' = GetAllKeysIn(input.index)
  /\ phase' = "keys"
  /\ UNCHANGED <<engineVars, input>>

NextQuery == ApplyGetTranslation \/ ApplyGetAllKeys

SpecQuery == InitQuery /\ [][NextQuery]_vars

(***************************************************************************)
(* processFile's choice of locale, as a function of the file's base name.  *)
(* A name is a text of up to MaxStem characters over StemChars followed    *)
(* by one of NameEndings.                                                  *)
(***************************************************************************)
US == "_"

Alpha ==
  {"a", "b", "c", "d", "e", "f", "g", "h", "i", "j", "k", "l", "m",
   "n", "o", "p", "q", "r", "s", "t", "u", "v", "w", "x", "y", "z",
   "A", "B", "C", "D", "E", "F", "G", "H", "I", "J", "K", "L", "M",
   "N", "O", "P", "Q", "R", "S", "T", "U", "V", "W", "X", "Y", "Z"}

DotProperties == <<DOT, "p", "r", "o", "p", "e", "r", "t", "i", "e", "s">>
DotYml        == <<DOT, "y", "m", "l">>
DotYaml       == <<DOT, "y", "a", "m", "l">>
TranslationExts == {DotProperties, DotYml, DotYaml}

DefaultLocale == <<"d", "e", "f", "a", "u", "l", "t">>

\* String.prototype.endsWith(suffix)
EndsWithText(t, suffix) ==
  Len(t) >= Len(suffix) /\ SubSeq(t, Len(t) - Len(suffix) + 1, Len(t)) = suffix

\* /_([a-zA-Z]{2,3}(?:_[a-zA-Z]{2})?)\.(properties|yml|yaml)$/ tried at the
\* underscore name[i] with n letters and with (r) or without the region
LocaleMatchAt(name, i, n, r) ==
  /\ name[i] = US
  /\ i + n <= Len(name)
  /\ \A j \in (i + 1)..(i + n) : name[j] \in Alpha
  /\ r => /\ i + n + 3 <= Len(name)
          /\ name[i + n + 1] = US
          /\ name[i + n + 2] \in Alpha
          /\ name[i + n + 3] \in Alpha
  /\ SubSeq(name, i + n + (IF r THEN 3 ELSE 0) + 1, Len(name)) \in TranslationExts

\* a pattern that would lack the optional region group
LocaleMatchNoRegion(name) ==
  LET starts == {i \in 1..Len(name) : \E n \in {2, 3} : LocaleMatchAt(name, i, n, FALSE)}
  IN IF starts = {} THEN <<>>
     ELSE LET i == Min(starts)
              n == IF LocaleMatchAt(name, i, 3, FALSE) THEN 3 ELSE 2
          IN <<SubSeq(name, i + 1, i + n)>>

\* filename.match(...): <<>> for null, else <<match[1]>>; the leftmost start
\* wins, and there the greedy choices (three letters, a region) are tried first
LocaleMatch(name) ==
  LET starts == {i \in 1..Len(name) :
                   \E n \in {2, 3}, r \in BOOLEAN : LocaleMatchAt(name, i, n, r)}
  IN IF starts = {} THEN <<>>
     ELSE LET i == Min(starts)
              n == IF \E r \in BOOLEAN : LocaleMatchAt(name, i, 3, r) THEN 3 ELSE 2
              r == LocaleMatchAt(name, i, n, TRUE)
          IN <<SubSeq(name, i + 1, i + n + (IF r THEN 3 ELSE 0))>>

\* processFile up to the call of loadSingleFile: <<locale>>, or <<>> when
\* it returns without loading
ProcessFileLocale(name) ==
  IF LocaleMatch(name) # <<>> THEN LocaleMatch(name)
  ELSE IF \E e \in TranslationExts : EndsWithText(name, e) THEN <<DefaultLocale>>
  ELSE <<>>

MaxStem == 6

StemChars == {"e", "U", US, "1"}

NameEndings == TranslationExts \cup {<<DOT, "t", "x", "t">>, <<>>}

RECURSIVE Stems(_)
Stems(n) ==
  IF n = 0 THEN {<<>>}
  ELSE Stems(n - 1) \cup {Append(s, c) : s \in {x \in Stems(n - 1) : Len(x) = n - 1}, c \in StemChars}

InitLocale ==
  /\ EngineOff
  /\ input \in {s \o e : s \in Stems(MaxStem), e \in NameEndings}
  /\ output = <<>>
  /\ phase = "name"

ApplyProcessFile ==
  /\ phase = "name"
  /\ output' = ProcessFileLocale(input)
  /\ phase' = "named"
  /\ UNCHANGED <<input, engineVars>>

SpecLocale == InitLocale /\ [][ApplyProcessFile]_vars

(***************************************************************************)
(* The key scan of the editor decoration: pattern.exec in a loop over the  *)
(* text of the buffer.  Patterns:                                          *)
(*   "default"  ([a-zA-Z0-9_]+(?:\.[a-zA-Z0-9_]+)+)                        *)
(*   "bare"     [a-zA-Z0-9_]+(?:\.[a-zA-Z0-9_]+)+      (no capturing group)*)
(*   "quoted"   "([a-zA-Z0-9_]+(?:\.[a-zA-Z0-9_]+)+)"                      *)
(*   "star"     [a-zA-Z0-9_.]*      (a configured pattern, matches "")     *)
(* Offsets are 0-based; a match is [index, end, m0, m1], m1 = <<>> for a   *)
(* group that is undefined.                                                *)
(***************************************************************************)
QUOTE == "\""

WordChars == Alpha \cup {"0", "1", "2", "3", "4", "5", "6", "7", "8", "9", US}

\* [a-zA-Z0-9_]+ from offset p, greedy: the offset after the run
RECURSIVE RunEnd(_, _)
RunEnd(text, p) ==
  IF p < Len(text) /\ text[p + 1] \in WordChars THEN RunEnd(text, p + 1) ELSE p

\* (?:\.[a-zA-Z0-9_]+)* from offset e, greedy
RECURSIVE ChainEnd(_, _)
ChainEnd(text, e) ==
  IF e < Len(text) /\ text[e + 1] = DOT /\ RunEnd(text, e + 1) > e + 1
  THEN ChainEnd(text, RunEnd(text, e + 1))
  ELSE e

\* [a-zA-Z0-9_]+(?:\.[a-zA-Z0-9_]+)+ at offset p: the end offset, or -1
TokenEnd(text, p) ==
  LET e1 == RunEnd(text, p)
  IN IF e1 = p \/ ChainEnd(text, e1) = e1 THEN -1 ELSE ChainEnd(text, e1)

\* [a-zA-Z0-9_.]* from offset p, greedy: the offset after the run
RECURSIVE StarEnd(_, _)
StarEnd(text, p) ==
  IF p < Len(text) /\ text[p + 1] \in WordChars \cup {DOT} THEN StarEnd(text, p + 1) ELSE p

\* the pattern tried at offset p: <<>> or <<match>>
MatchAt(text, pattern, p) ==
  IF pattern = "star"
  THEN <<[index |-> p, end |-> StarEnd(text, p),
          m0 |-> Substring(text, p, StarEnd(text, p)), m1 |-> <<>>]>>
  ELSE IF pattern = "quoted"
  THEN LET e == IF p < Len(text) /\ text[p + 1] = QUOTE THEN TokenEnd(text, p + 1) ELSE -1
       IN IF e # -1 /\ e < Len(text) /\ text[e + 1] = QUOTE
          THEN <<[index |-> p, end |-> e + 1,
                  m0 |-> Substring(text, p, e + 1), m1 |-> Substring(text, p + 1, e)]>>
          ELSE <<>>
  ELSE LET e == TokenEnd(text, p)
       IN IF e # -1
          THEN <<[index |-> p, end |-> e, m0 |-> Substring(text, p, e),
                  m1 |-> IF pattern = "default" THEN Substring(text, p, e) ELSE <<>>]>>
          ELSE <<>>

\* pattern.exec(text) with the g flag, from lastIndex
PatternExec(text, pattern, lastIndex) ==
  LET ps == {p \in lastIndex..Len(text) : MatchAt(text, pattern, p) # <<>>}
  IN IF ps = {} THEN <<>> ELSE MatchAt(text, pattern, Min(ps))

\* a scan that would report the whole match
WholeMatch(match) == match.m0

\* match[1] || match[0]
KeyOfMatch(match) == IF match.m1 # <<>> THEN match.m1 ELSE match.m0

\* the while loop of updateDecorations: the keys with their ranges
RECURSIVE ScanKeys(_, _, _)
ScanKeys(text, pattern, lastIndex) ==
  LET r == PatternExec(text, pattern, lastIndex)
  IN IF r = <<>> THEN <<>>
     ELSE <<[key |-> KeyOfMatch(r[1]), start |-> r[1].index, end |-> r[1].end]>>
            \o ScanKeys(text, pattern, r[1].end)

MaxText == 6

TextChars == {"a", "1", DOT, QUOTE}

RECURSIVE Texts(_)
Texts(n) ==
  IF n = 0 THEN {<<>>}
  ELSE Texts(n - 1) \cup {Append(s, c) : s \in {x \in Texts(n - 1) : Len(x) = n - 1}, c \in TextChars}

InitScan ==
  /\ EngineOff
  /\ input \in [text : Texts(MaxText), pattern : {"default", "bare", "quoted"}]
  /\ output = <<>>
  /\ phase = "buffer"

ApplyScan ==
  /\ phase = "buffer"
  /\ output' = ScanKeys(input.text, input.pattern, 0)
  /\ phase' = "scanned"
  /\ UNCHANGED <<input, engineVars>>

SpecScan == InitScan /\ [][ApplyScan]_vars

(***************************************************************************)
(* The translation editor's save with a changed key.  input is the         *)
(* message of the webview: the key the panel was opened for, the key       *)
(* submitted and the submitted value of each locale; phase is the          *)
(* position of _save.  writeTranslation for locale l runs in slot          *)
(* SaveSlot[l].  Every file is readable and no findFiles call fails.       *)
(***************************************************************************)
SaveSlot == [en |-> 1, ko |-> 2]

InitSave ==
  /\ EngineInit({1, 2})
  /\ workspaceFolders /\ unreadable = {}
  /\ input = [key |-> KeyAB, newKey |-> KeyC, translations |-> [l \in Locales |-> ValY]]
  /\ output = <<>>
  /\ phase = "open"

\* _save: newKey !== this._key, and deleteKey(this._key) runs to its Promise.all
SaveDeleteOld ==
  /\ phase = "open"
  /\ \A s \in Slots : Idle(s)
  /\ phase' = "renaming"
  /\ nOps' = nOps + 1
  /\ op' = [op EXCEPT ![1] = [NoOp EXCEPT !.kind = "delete", !.pc = "deleting", !.key = input.key,
                                          !.fromStable = stable,
                                          !.tasks = DeleteTasks(input.key)]]
  /\ rl' = [rl EXCEPT ![1] = NoReload]
  /\ UNCHANGED <<workspaceFolders, disk, exists, unreadable, heap, propertiesCache,
                 published, pubRead, pubOrder, stable, input, output>>

\* deleteKey has returned; Object.keys(translations).map(...) calls
\* writeTranslation for every locale, each running to its first await
SaveWriteAll ==
  /\ phase = "renaming"
  /\ op[1].kind = "delete" /\ op[1].pc = "done"
  /\ phase' = "writing"
  /\ op' = [s \in Slots |->
              LET l == CHOOSE x \in Locales : SaveSlot[x] = s
              IN [NoOp EXCEPT !.kind = "write", !.key = input.newKey, !.locale = l,
                              !.value = input.translations[l],
                              !.uri = TargetUri(input.newKey, l),
                              !.hadStore = Index[l].type # "none",
                              !.fromStable = stable,
                              !.pc = IF TargetUri(input.newKey, l) # "" THEN "edit" ELSE "prompt"]]
  /\ rl' = [s \in Slots |-> NoReload]
  /\ UNCHANGED <<workspaceFolders, disk, exists, unreadable, heap, propertiesCache, nOps,
                 published, pubRead, pubOrder, stable, input, output>>

\* Promise.all(promises) resolves: every writeTranslation has returned
SaveDone ==
  /\ phase = "writing"
  /\ \A s \in Slots : op[s].pc = "done"
  /\ phase' = "saved"
  /\ UNCHANGED <<engineVars, input, output>>

NextSave ==
  \/ SaveDeleteOld
  \/ SaveWriteAll
  \/ SaveDone
  \/ \E s \in {1, 2} :
       \/ \E g \in Globs : GlobResolve(s, g)
       \/ \E t \in rl[s].tasks : LoadFile(s, t)
       \/ Stage1Join(s)
       \/ AppScanResolve(s)
       \/ AppRead(s)
       \/ LookupResolve(s)
       \/ Stage2Join(s)
       \/ Publish(s)
       \/ Resume(s)
       \/ \E t \in op[s].tasks : DeleteKeyFromFile(s, t)
       \/ DeleteJoin(s)
       \/ EditFile(s)

SpecSave == InitSave /\ [][NextSave]_vars

(***************************************************************************)
(* init() on a manager that has not loaded anything yet.  output is        *)
(* initPromise: <<>> for null, <<s>> for the promise of the reload in      *)
(* slot s; input counts the calls of init() and the reloads they started.  *)
(***************************************************************************)
MaxInitCalls == 2

InitManager ==
  /\ workspaceFolders \in BOOLEAN
  /\ exists = InitialFiles
  /\ \E broken \in BOOLEAN :
       /\ disk = [f \in Files |-> CASE f = "F1" -> F1Text [] f = "F2" -> F2Text
                                   [] f = "F3" -> (IF broken THEN F3Bad ELSE F3Doc)
                                   [] OTHER -> <<>>]
       /\ unreadable = IF broken THEN {"F2"} ELSE {}
  /\ propertiesCache = 0
  /\ heap = [o \in {0} |-> EmptyIndex]
  /\ published = EmptyIndex
  /\ pubRead = <<>>
  /\ pubOrder = [l \in Locales |-> <<>>]
  /\ stable = FALSE
  /\ nOps = 0
  /\ op = [s \in {1} |-> NoOp]
  /\ rl = [s \in {1} |-> NoReload]
  /\ input = [calls |-> 0, started |-> 0]
  /\ output = <<>>
  /\ phase = "constructed"

\* init(): if (!this.initPromise) this.initPromise = this.reloadProperties();
\* return this.initPromise
CallInit ==
  /\ input.calls < MaxInitCalls
  /\ IF output = <<>>
     THEN /\ output' = <<1>>
          /\ input' = [calls |-> input.calls + 1, started |-> input.started + 1]
          /\ op' = [op EXCEPT ![1] = [NoOp EXCEPT !.kind = "init", !.pc = "reloading"]]
          /\ BeginReload(rl, stable, 1, 1)
     ELSE /\ input' = [input EXCEPT !.calls = @ + 1]
          /\ UNCHANGED <<output, op, rl, heap>>
  /\ UNCHANGED <<workspaceFolders, disk, exists, unreadable, propertiesCache, nOps,
                 published, pubRead, pubOrder, stable, phase>>

NextInit ==
  \/ CallInit
  \/ \E s \in {1} : ReloadStep(s) \/ Resume(s)

SpecInit == InitManager /\ [][NextInit]_vars

(***************************************************************************)
(* deepMerge as a function of the store's tree and the tree of the file    *)
(* merged into it.                                                         *)
(***************************************************************************)
InitMerge ==
  /\ EngineOff
  /\ input \in [target : QueryNodes, source : QueryNodes]
  /\ output = <<>>
  /\ phase = "trees"

\* cache[locale].yamlObject = this.deepMerge(cache[locale].yamlObject || {}, yamlObj || {})
ApplyDeepMerge ==
  /\ phase = "trees"
  /\ output' = DeepMerge(input.target, input.source)
  /\ phase' = "merged"
  /\ UNCHANGED <<input, engineVars>>

SpecMerge == InitMerge /\ [][ApplyDeepMerge]_vars

(***************************************************************************)
(* getPattern of the decoration and of the hover provider, followed by     *)
(* the scan.  The configured keyRegex is "default", "bare" or "invalid"    *)
(* (a text new RegExp throws on).                                          *)
(***************************************************************************)
\* try { return new RegExp(rawRegex, 'g') } catch (e) { ...; return /"(...)"/g }
\* the decoration's catch calls console.error, the hover's has it commented out
GetPattern(path, keyRegex) ==
  IF keyRegex = "invalid"
  THEN [pattern |-> "quoted", reported |-> path = "decoration"]
  ELSE [pattern |-> keyRegex, reported |-> FALSE]

InitPattern ==
  /\ EngineOff
  /\ input \in [text : Texts(MaxText), keyRegex : {"default", "bare", "invalid"},
                path : {"decoration", "hover"}]
  /\ output = <<>>
  /\ phase = "configured"

\* updateDecorations / provideHover: getPattern(), then the scan of the text
ApplyGetPattern ==
  /\ phase = "configured"
  /\ LET p == GetPattern(input.path, input.keyRegex)
     IN output' = [pattern |-> p.pattern, reported |-> p.reported,
                   keys |-> ScanKeys(input.text, p.pattern, 0)]
  /\ phase' = "patterned"
  /\ UNCHANGED <<input, engineVars>>

SpecPattern == InitPattern /\ [][ApplyGetPattern]_vars

(***************************************************************************)
(* deleteKeyFromFile on a tree file, with what it does besides the text:   *)
(* the edits applied, the save, and the lines logged.                      *)
(***************************************************************************)
\* if (keyStartLine !== -1) { ...; applyEdit(edit); doc.save() } and no else
DeleteKeyFromTreeFile(lines, key) ==
  IF FindKeyLine(lines, 1, Split(key), 0) # 0
  THEN [doc |-> DeleteKeyTree(lines, key), edits |-> 1, saved |-> TRUE, log |-> <<>>]
  ELSE [doc |-> lines, edits |-> 0, saved |-> FALSE, log |-> <<>>]

ApplyDeleteKeyFromFile ==
  /\ phase = "tree"
  /\ output' = DeleteKeyFromTreeFile(input.doc, input.key)
  /\ phase' = "fileDeleted"
  /\ UNCHANGED <<input, engineVars>>

SpecTreeFile == InitTreeDelete /\ [][ApplyDeleteKeyFromFile]_vars

(***************************************************************************)
(* The while loop of updateDecorations and provideHover, one pattern.exec  *)
(* per step.  output is the pattern's lastIndex and the number of          *)
(* iterations run; the model stops following a loop at MaxIter iterations. *)
(***************************************************************************)
MaxIter == 8

InitLoop ==
  /\ EngineOff
  /\ input \in [text : Texts(MaxText), pattern : {"default", "bare", "quoted", "star"}]
  /\ output = [lastIndex |-> 0, iterations |-> 0]
  /\ phase = "looping"

\* exec finds a match: lastIndex becomes the end of the match, the body runs
ExecMatch ==
  /\ phase = "looping"
  /\ output.iterations < MaxIter
  /\ LET r == PatternExec(input.text, input.pattern, output.lastIndex)
     IN /\ r # <<>>
        /\ output' = [lastIndex |-> r[1].end, iterations |-> output.iterations + 1]
  /\ UNCHANGED <<input, phase, engineVars>>

\* exec returns null: lastIndex is reset and the loop ends
ExecNull ==
  /\ phase = "looping"
  /\ PatternExec(input.text, input.pattern, output.lastIndex) = <<>>
  /\ output' = [output EXCEPT !.lastIndex = 0]
  /\ phase' = "ended"
  /\ UNCHANGED <<input, engineVars>>

NextLoop == ExecMatch \/ ExecNull

SpecLoop == InitLoop /\ [][NextLoop]_vars

(***************************************************************************)
(* The engine in a workspace whose src/main/resources/messages_ko.yml      *)
(* exists and gives the index no key: it is empty, holds only a comment,   *)
(* or does not parse.                                                      *)
(***************************************************************************)
KeylessDocs == {<<>>, <<CommentLine(0)>>, F3Bad}

InitExisting ==
  /\ workspaceFolders = TRUE
  /\ exists = {"F2", "F5"}
  /\ \E d \in KeylessDocs :
       disk = [f \in Files |-> CASE f = "F2" -> F2Text [] f = "F5" -> d [] OTHER -> <<>>]
  /\ unreadable = {}
  /\ propertiesCache = 0
  /\ published = EmptyIndex
  /\ pubRead = <<>>
  /\ pubOrder = [l \in Locales |-> <<>>]
  /\ stable = FALSE
  /\ nOps = 0
  /\ op = [s \in {1} |-> [NoOp EXCEPT !.kind = "reload", !.pc = "reloading"]]
  /\ rl = [s \in {1} |-> [NoReload EXCEPT !.rpc = "stage1", !.obj = NewCache(1), !.clean = TRUE]]
  /\ heap = [o \in {0, NewCache(1)} |-> EmptyIndex]
  /\ input = <<>> /\ output = <<>> /\ phase = "engine"

SpecExisting == InitExisting /\ [][NextCreate]_vars

(***************************************************************************)
(* writeTranslation's tree branch as a function of the file: input is the  *)
(* document (one yaml.load accepts), the key and the value; output is the  *)
(* document written back.                                                  *)
(***************************************************************************)
KeyBB == <<"b", DOT, "b">>

TreeWriteKeys == TreeDeleteKeys \cup {KeyBB}

InitTreeWrite ==
  /\ EngineOff
  /\ input \in [doc : {d \in TreeDocs : YamlLoad(d).ok}, key : TreeWriteKeys, value : {ValY}]
  /\ output = <<>>
  /\ phase = "treeFile"

\* yaml.load, the walk over the parts, yaml.dump, fs.writeFile
ApplyTreeWrite ==
  /\ phase = "treeFile"
  /\ output' = WriteTree(input.doc, input.key, input.value)
  /\ phase' = "treeWritten"
  /\ UNCHANGED <<input, engineVars>>

SpecTreeWrite == InitTreeWrite /\ [][ApplyTreeWrite]_vars

(***************************************************************************)
(* The key tree view.  input.keys is what manager.getAllKeys() returns, no *)
(* filter is set; output holds the items shown so far and the key paths of *)
(* the groups expanded.  An item is [label, isLeaf, keyPath]; isLeaf is    *)
(* TreeItemCollapsibleState.None, the only state that cannot be expanded.  *)
(* The description of a leaf (its value in the view locale) is left out.   *)
(***************************************************************************)
StartsWith(s, prefix) == Len(s) >= Len(prefix) /\ SubSeq(s, 1, Len(prefix)) = prefix

\* getDirectChildren: the loop over allKeys from position i, children so far
RECURSIVE DirectChildrenFrom(_, _, _, _)
DirectChildrenFrom(allKeys, i, parentKey, children) ==
  IF i > Len(allKeys) THEN children
  ELSE LET key == allKeys[i]
       IN IF parentKey # <<>> /\ ~StartsWith(key, parentKey \o <<DOT>>)
          THEN DirectChildrenFrom(allKeys, i + 1, parentKey, children)
          ELSE LET relativeKey == IF parentKey # <<>>
                                  THEN Substring(key, Len(parentKey) + 1, Len(key)) ELSE key
                   parts == Split(relativeKey)
                   segment == parts[1]
                   fullPath == IF parentKey # <<>> THEN parentKey \o <<DOT>> \o segment ELSE segment
               IN IF \E j \in 1..Len(children) : children[j].label = segment
                  THEN DirectChildrenFrom(allKeys, i + 1, parentKey, children)
                  ELSE DirectChildrenFrom(allKeys, i + 1, parentKey,
                         Append(children, [label |-> segment, isLeaf |-> Len(parts) = 1,
                                           keyPath |-> fullPath]))

GetDirectChildren(allKeys, parentKey) == DirectChildrenFrom(allKeys, 1, parentKey, <<>>)

\* getChildren(element): parentKey is element.keyPath, '' for the roots
GetChildren(allKeys, parentKey) ==
  IF ~workspaceFolders THEN <<>> ELSE GetDirectChildren(allKeys, parentKey)

ViewKeys == {KeyA, KeyAB, KeyABC, KeyAC, KeyC, <<"b">>}

InitTreeView ==
  /\ workspaceFolders = TRUE
  /\ exists = {}
  /\ disk = [f \in Files |-> <<>>]
  /\ unreadable = {}
  /\ propertiesCache = 0
  /\ heap = [o \in {0} |-> EmptyIndex]
  /\ published = EmptyIndex
  /\ pubRead = <<>>
  /\ pubOrder = [l \in Locales |-> <<>>]
  /\ stable = FALSE
  /\ nOps = 0
  /\ op = [s \in {1} |-> NoOp]
  /\ rl = [s \in {1} |-> NoReload]
  /\ input \in {[keys |-> SortKeys(S)] : S \in SUBSET ViewKeys}
  /\ output = [items |-> {}, expanded |-> {}]
  /\ phase = "view"

\* the view asks for the roots: getChildren()
ShowRoots ==
  /\ phase = "view"
  /\ output' = [items |-> Range(GetChildren(input.keys, <<>>)), expanded |-> {}]
  /\ phase' = "tree"
  /\ UNCHANGED <<input, engineVars>>

\* the user expands a group: getChildren(element)
ExpandGroup ==
  /\ phase = "tree"
  /\ \E it \in output.items :
       /\ ~it.isLeaf /\ it.keyPath \notin output.expanded
       /\ output' = [items |-> output.items \cup Range(GetChildren(input.keys, it.keyPath)),
                     expanded |-> output.expanded \cup {it.keyPath}]
  /\ UNCHANGED <<input, phase, engineVars>>

NextTreeView == ShowRoots \/ ExpandGroup

SpecTreeView == InitTreeView /\ [][NextTreeView]_vars

(***************************************************************************)
(* The command extractI18nKey.  input is the selected text, the key the    *)
(* user enters (<<>>: the input box is dismissed) and locales[0] of the    *)
(* configuration; output is the text at the selection; phase is the        *)
(* position of the command.  Its writeTranslation runs in slot 1.          *)
(***************************************************************************)
InitExtract ==
  /\ EngineInit({1})
  /\ input \in [text : {ValY}, key : {KeyC, <<>>}, targetLocale : Locales]
  /\ output = input.text
  /\ phase = "selected"

\* up to `await manager.writeTranslation(key, targetLocale, text)`
ExtractWrite ==
  /\ phase = "selected"
  /\ Idle(1)
  /\ IF input.key = <<>>
     THEN /\ phase' = "cancelled"
          /\ UNCHANGED <<op, rl, nOps>>
     ELSE /\ phase' = "extracting"
          /\ nOps' = nOps + 1
          /\ op' = [op EXCEPT ![1] =
                      [NoOp EXCEPT !.kind = "write", !.key = input.key, !.locale = input.targetLocale,
                                   !.value = input.text,
                                   !.uri = TargetUri(input.key, input.targetLocale),
                                   !.hadStore = Index[input.targetLocale].type # "none",
                                   !.fromStable = stable,
                                   !.pc = IF TargetUri(input.key, input.targetLocale) # ""
                                          THEN "edit" ELSE "prompt"]]
          /\ rl' = [rl EXCEPT ![1] = NoReload]
  /\ UNCHANGED <<workspaceFolders, disk, exists, unreadable, heap, propertiesCache,
                 published, pubRead, pubOrder, stable, input, output>>

\* writeTranslation has returned: editBuilder.replace(selection, key)
ExtractReplace ==
  /\ phase = "extracting"
  /\ op[1].pc \in {"done", "noop"}
  /\ output' = input.key
  /\ phase' = "extracted"
  /\ UNCHANGED <<input, engineVars>>

\* writeTranslation has thrown: the command ends with the rejection
ExtractThrow ==
  /\ phase = "extracting"
  /\ op[1].pc = "failed"
  /\ phase' = "threw"
  /\ UNCHANGED <<input, output, engineVars>>

NextExtract ==
  \/ ExtractWrite
  \/ ExtractReplace
  \/ ExtractThrow
  \/ \E s \in {1} :
       \/ ReloadStep(s)
       \/ Resume(s)
       \/ \E o \in CreateOptions : Prompt(s, o)
       \/ \E a \in BOOLEAN : InputBox(s, a)
       \/ CreateFile(s)
       \/ CreateFail(s)
       \/ EditFile(s)

SpecExtract == InitExtract /\ [][NextExtract]_vars

(***************************************************************************)
(* The file watchers of activate().  Files change from outside between     *)
(* reloads; a watcher whose glob matches the file calls                    *)
(* manager.reloadProperties().  output.pending counts the watcher calls    *)
(* waiting to run, output.dirty holds the files changed since the last     *)
(* reload started, input.changes counts the outside changes.               *)
(***************************************************************************)
MaxChanges == 1

\* createFileSystemWatcher('**/*.properties'); the second watcher,
\* '**/application.{yml,yaml}', matches no translation file
WatcherMatches(f) == FileInfo[f].ext = "properties"

ChangedFlat == <<"c", EQ, "y", LF>>
ChangedTree == <<KV(0, KeyC, "str", ValY)>>

ChangedContent(f) == IF IsFlat(f) THEN ChangedFlat ELSE ChangedTree

InitWatch ==
  /\ EngineInit({1})
  /\ workspaceFolders /\ unreadable = {}
  /\ input = [changes |-> 0]
  /\ output = [pending |-> 0, dirty |-> {}]
  /\ phase = "watching"

Notified(f) ==
  [pending |-> output.pending + (IF WatcherMatches(f) THEN 1 ELSE 0),
   dirty |-> output.dirty \cup {f}]

Quiet == Idle(1) /\ ~InFlight(1)

\* a translation file is edited outside the extension
ExternalChange(f) ==
  /\ Quiet /\ input.changes < MaxChanges
  /\ f \in exists /\ disk[f] # ChangedContent(f)
  /\ disk' = [disk EXCEPT ![f] = ChangedContent(f)]
  /\ input' = [changes |-> input.changes + 1]
  /\ output' = Notified(f)
  /\ stable' = FALSE
  /\ UNCHANGED <<workspaceFolders, exists, unreadable, heap, propertiesCache, op, rl, nOps,
                 published, pubRead, pubOrder, phase>>

\* a translation file is created outside the extension
ExternalCreate(f) ==
  /\ Quiet /\ input.changes < MaxChanges
  /\ f \notin exists
  /\ exists' = exists \cup {f}
  /\ disk' = [disk EXCEPT ![f] = ChangedContent(f)]
  /\ input' = [changes |-> input.changes + 1]
  /\ output' = Notified(f)
  /\ stable' = FALSE
  /\ UNCHANGED <<workspaceFolders, unreadable, heap, propertiesCache, op, rl, nOps,
                 published, pubRead, pubOrder, phase>>

\* a translation file is deleted outside the extension
ExternalDelete(f) ==
  /\ Quiet /\ input.changes < MaxChanges
  /\ f \in exists
  /\ exists' = exists \ {f}
  /\ disk' = [disk EXCEPT ![f] = <<>>]
  /\ input' = [changes |-> input.changes + 1]
  /\ output' = Notified(f)
  /\ stable' = FALSE
  /\ UNCHANGED <<workspaceFolders, unreadable, heap, propertiesCache, op, rl, nOps,
                 published, pubRead, pubOrder, phase>>

\* watcher.onDidChange / onDidCreate / onDidDelete: () => manager.reloadProperties()
WatcherEvent(s) ==
  /\ output.pending > 0
  /\ Idle(s)
  /\ output' = [pending |-> output.pending - 1, dirty |-> {}]
  /\ op' = [op EXCEPT ![s] = [NoOp EXCEPT !.kind = "reload", !.pc = "reloading"]]
  /\ BeginReload(rl, stable, s, 1)
  /\ UNCHANGED <<workspaceFolders, disk, exists, unreadable, propertiesCache, nOps,
                 published, pubRead, pubOrder, stable, input, phase>>

EngineStep == \E s \in {1} : ReloadStep(s) \/ Resume(s) \/ WatcherEvent(s)

NextWatch ==
  \/ \E f \in Files : ExternalChange(f)
  \/ \E f \in Files : ExternalCreate(f)
  \/ \E f \in Files : ExternalDelete(f)
  \/ \E s \in {1} :
       \/ ReloadStep(s)
       \/ Resume(s)
       \/ WatcherEvent(s)

\* the event loop runs every promise continuation and watcher callback that
\* is ready; nothing obliges the outside to change files
SpecWatch == InitWatch /\ [][NextWatch]_vars /\ WF_vars(EngineStep)

(***************************************************************************)
QueryKeys == {KeyA, KeyAB, <<"b">>}

\* file content defines key with value, under the rules of the file's format
Defines(content, f, key, value) ==
  IF IsFlat(f)
  THEN LET p == ReaderRead(<<>>, content) IN OMHas(p, key) /\ OMGet(p, key) = value
  ELSE YamlLoad(content).ok /\ GetYamlValue(YamlLoad(content).node, key) = <<value>>

Completes(s) == rl[s].rpc = "ready" /\ rl'[s].rpc = "done"

VisibleChangeIsPublish ==
  (heap'[propertiesCache'] # heap[propertiesCache])
    => \E s \in Slots : Completes(s) /\ rl[s].tasks = {}

RejectKeepsIndex ==
  (\E s \in Slots : rl[s].rpc # "rejected" /\ rl'[s].rpc = "rejected")
    => heap'[propertiesCache'] = heap[propertiesCache]

\* C1: readers always see an index exactly as some finished reload published
\* it (or the initial empty one): no object under construction is the
\* published one, the visible index changes only in the step that ends a
\* reload whose loads have all finished, and a rejected reload leaves it as
\* it was.
C1_PublishedIndexIsComplete ==
  /\ [](/\ Index = published
        /\ \A s \in Slots : InFlight(s) => rl[s].obj # propertiesCache)
  /\ [][VisibleChangeIsPublish /\ RejectKeepsIndex]_vars

\* a reload has merged files into its private cache while an earlier,
\* different, non-empty index is the published one
C1_Witness ==
  \E s \in Slots : /\ InFlight(s)
                   /\ heap[rl[s].obj] # EmptyIndex
                   /\ Index # EmptyIndex
                   /\ heap[rl[s].obj] # Index

\* C2: whenever a key resolves to a value in a locale, getSourceFile names a
\* file, and that file, as the publishing reload read it, defines the key
\* with that value.
C2_SourceDefinesValue ==
  \A l \in Locales, k \in QueryKeys :
    getTranslation(k, l) # <<>> =>
      /\ getSourceFile(k, l) # <<>>
      /\ LET f == getSourceFile(k, l)[1]
         IN f \in DOMAIN pubRead /\ Defines(pubRead[f], f, k, getTranslation(k, l)[1])

\* the flat files of locale l that the publishing reload merged and that
\* define key k, in the order of their first merge
FlatDefiners(l, k) ==
  LET Def(f) == IsFlat(f) /\ f \in DOMAIN pubRead /\ OMHas(ReaderRead(<<>>, pubRead[f]), k)
  IN SelectSeq(pubOrder[l], Def)

\* C3: when two flat files of a locale both define a key, the published
\* value and source file of the key are those of the file merged first.
C3_FirstLoadedWins ==
  \A l \in Locales, k \in QueryKeys :
    (Index[l].type = "properties" /\ Len(FlatDefiners(l, k)) >= 2) =>
      LET first == FlatDefiners(l, k)[1]
      IN /\ getTranslation(k, l) = <<OMGet(ReaderRead(<<>>, pubRead[first]), k)>>
         /\ getSourceFile(k, l) = <<first>>

\* C4: once writeTranslation(k, l, v) for a locale that had a store has
\* completed with its reload, getTranslation(k, l) is exactly v.
C4_WriteRoundTrip ==
  \A s \in Slots :
    (op[s].kind = "write" /\ op[s].pc = "done" /\ rl[s].rpc = "done" /\ op[s].hadStore)
      => getTranslation(op[s].key, op[s].locale) = <<op[s].value>>

SameAnswers(i, j) ==
  /\ GetAllKeysIn(i) = GetAllKeysIn(j)
  /\ \A l \in Locales, k \in QueryKeys :
       /\ GetTranslationIn(i, k, l) = GetTranslationIn(j, k, l)
       /\ GetSourceFileIn(i, k, l) = GetSourceFileIn(j, k, l)

\* C5: a reload that follows a finished reload with no file change in
\* between, neither of them recovering from any error, publishes an index
\* that answers getAllKeys, getTranslation and getSourceFile exactly as the
\* index it replaces.
C5_ReloadIdempotent ==
  [][\A s \in Slots :
       (Completes(s) /\ rl[s].idem /\ rl[s].clean /\ ~rl[s].faulted /\ ~rl[s].scanFailed)
         => SameAnswers(heap[propertiesCache], heap'[propertiesCache'])]_vars

\* C6: once deleteKey(k) has completed with its reload (no error recovered
\* on the way), k resolves in no locale and is not listed by getAllKeys.
C6_DeleteRemovesKey ==
  \A s \in Slots :
    (/\ op[s].kind = "delete" /\ op[s].pc = "done" /\ op[s].fromStable
     /\ rl[s].rpc = "done" /\ ~rl[s].faulted /\ ~rl[s].scanFailed)
      => /\ \A l \in Locales : getTranslation(op[s].key, l) = <<>>
         /\ op[s].key \notin Range(getAllKeys)

\* C7: a reload that has run to its end has fired the change event exactly
\* once, and the listener handling it read the index this reload published;
\* a reload that has not reached its end (still running, rejected, or
\* returned at the workspaceFolders guard without building anything) has
\* fired nothing.
C7_FiresOnceAfterPublish ==
  \A s \in Slots :
    /\ rl[s].rpc = "done" => (rl[s].fired = 1 /\ rl[s].seen = rl[s].obj)
    /\ rl[s].rpc # "done" => rl[s].fired = 0

\* a reload has finished and published a non-empty index
C7_Witness ==
  \E s \in Slots : rl[s].rpc = "done" /\ propertiesCache = rl[s].obj /\ Index # EmptyIndex

\* C8: a file whose load failed is the source of no key and every value of
\* the new index comes from a file that was loaded; every other discovered
\* file is loaded; and a reload is rejected only when a directory scan
\* failed, never because of a file.
C8_FileFailureIsIsolated ==
  \A s \in Slots :
    /\ (rl[s].rpc = "done" /\ propertiesCache = rl[s].obj) =>
         /\ \A f \in rl[s].failed \ rl[s].loaded, l \in Locales :
              \A i \in 1..Len(Index[l].keySource) : Index[l].keySource[i].v # f
         /\ \A l \in Locales, k \in QueryKeys :
              getTranslation(k, l) # <<>> =>
                \E f \in rl[s].loaded :
                  /\ LocaleOf(f) = l /\ f \in DOMAIN pubRead
                  /\ Defines(pubRead[f], f, k, getTranslation(k, l)[1])
         /\ rl[s].found \ rl[s].failed \subseteq rl[s].loaded
    /\ rl[s].rpc = "rejected" => rl[s].scanFailed

\* a reload has finished although one discovered file failed to load, and
\* it has loaded another
C8_Witness ==
  \E s \in Slots : /\ rl[s].rpc = "done" /\ propertiesCache = rl[s].obj
                   /\ rl[s].failed # {} /\ rl[s].loaded # {}
                   /\ Index # EmptyIndex

\* C9: a failed directory scan never makes the reload reject.
C9_ScanFailureIsSkipped ==
  \A s \in Slots : rl[s].scanFailed => rl[s].rpc # "rejected"

\* the physical lines of key's logical entry: from the first line that
\* starts with `key=` through the first following line not ending in a backslash
EntryFirst(ls, key) ==
  LET hits == {i \in 1..Len(ls) : Len(ls[i]) > Len(key) /\ SubSeq(ls[i], 1, Len(key) + 1) = key \o <<EQ>>}
  IN IF hits = {} THEN 0 ELSE Min(hits)

EntryLast(ls, first) ==
  Min({j \in first..Len(ls) : j = Len(ls) \/ ~EndsWith(ls[j], BSL)})

\* the text without the lines of key's logical entry
WithoutEntry(ls, key) ==
  IF EntryFirst(ls, key) = 0 THEN JoinLines(ls)
  ELSE JoinLines(SubSeq(ls, 1, EntryFirst(ls, key) - 1)
                 \o SubSeq(ls, EntryLast(ls, EntryFirst(ls, key)) + 1, Len(ls)))

\* the lines of a text whose every line ends in a line break
LinesOf(t) == LET ls == SplitLines(t) IN SubSeq(ls, 1, Len(ls) - 1)

\* C10: deleting a key from flat text removes exactly the lines of its
\* logical entry (key line and all continuation lines, with their line
\* breaks) and leaves every other line, blank ones included, as it was.
C10_DeleteRemovesLogicalEntry ==
  phase = "deleted" => output = WithoutEntry(LinesOf(input), KeyB)

\* a line findKeyLine looks at: neither blank nor a comment
Searched(l) == l.kind \notin {"blank", "comment"}

\* the first line from `from` on that holds segment seg at the expected
\* indent with no shallower line before it (0: not found)
SegmentLine(lines, from, seg, indent) ==
  LET cands == {j \in from..Len(lines) :
                  /\ lines[j].kind = "kv" /\ lines[j].ind = indent /\ lines[j].key = seg
                  /\ \A m \in from..(j - 1) : Searched(lines[m]) => lines[m].ind >= indent}
  IN IF cands = {} THEN 0 ELSE Min(cands)

\* the indent of the first line under line j when it is deeper than indent (-1: none)
ChildIndent(lines, j, indent) ==
  LET after == {m \in (j + 1)..Len(lines) : Searched(lines[m])}
  IN IF after # {} /\ lines[Min(after)].ind > indent THEN lines[Min(after)].ind ELSE -1

\* the line of the key, descending one segment at a time (0: not found)
RECURSIVE KeyLineOf(_, _, _, _)
KeyLineOf(lines, from, parts, indent) ==
  LET j == SegmentLine(lines, from, parts[1], indent)
  IN IF j = 0 THEN 0
     ELSE IF Len(parts) = 1 THEN j
     ELSE IF ChildIndent(lines, j, indent) = -1 THEN 0
     ELSE KeyLineOf(lines, j + 1, Tail(parts), ChildIndent(lines, j, indent))

\* the last line of the block under line j: the last non-blank line before
\* the next non-blank line at or above j's indent
BlockEnd(lines, j) ==
  LET stops == {m \in (j + 1)..Len(lines) : lines[m].kind # "blank" /\ lines[m].ind <= lines[j].ind}
      stop == IF stops = {} THEN Len(lines) + 1 ELSE Min(stops)
      deeper == {m \in (j + 1)..(stop - 1) : lines[m].kind # "blank"}
  IN IF deeper = {} THEN j ELSE CHOOSE m \in deeper : \A n \in deeper : n <= m

\* the document without the key's line and block
WithoutBlock(lines, key) ==
  LET j == KeyLineOf(lines, 1, Split(key), 0)
  IN IF j = 0 THEN lines
     ELSE SubSeq(lines, 1, j - 1) \o SubSeq(lines, BlockEnd(lines, j) + 1, Len(lines))

\* C11: deleting a key from a tree document removes exactly the key's line
\* and the block of deeper lines under it, the key's line being found by
\* descending its segments at the expected indent; every other line stays,
\* and nothing is removed when the key is not found.
C11_TreeDeleteRemovesBlock ==
  phase = "treeDeleted" => output = WithoutBlock(input.doc, input.key)

\* a nested key was deleted together with lines under it, and lines remain
\* before and after the removed block
C11_Witness ==
  /\ phase = "treeDeleted"
  /\ input.key = KeyAC
  /\ Len(output) >= 2
  /\ Len(output) + 2 <= Len(input.doc)
  /\ output[1] = input.doc[1]
  /\ output[Len(output)] = input.doc[Len(input.doc)]

\* line l is an entry of key: optional leading blanks, the key, `=`
IsEntryOf(l, key) ==
  LET s == TrimStart(l)
  IN Len(s) > Len(key) /\ SubSeq(s, 1, Len(key) + 1) = key \o <<EQ>>

\* the lines with the value of key's first entry replaced: everything up to
\* and including its `=` stays, the rest of the line becomes value
WithValue(ls, key, value) ==
  LET hits == {i \in 1..Len(ls) : IsEntryOf(ls[i], key)}
      h == Min(hits)
  IN [i \in 1..Len(ls) |->
        IF i = h THEN SubSeq(ls[i], 1, IndexOf(ls[i], EQ, 0) + 1) \o value ELSE ls[i]]

\* C12: writing a key that has an entry in flat text replaces only the
\* value of that entry: leading whitespace, key, `=` and every other line
\* stay as they were, whatever the old value is.
C12_WriteReplacesValueSpan ==
  (phase = "flatWritten" /\ \E i \in 1..Len(LinesOf(input.text)) : IsEntryOf(LinesOf(input.text)[i], KeyA))
    => output = JoinLines(WithValue(LinesOf(input.text), KeyA, input.value))

(***************************************************************************)
(* Tree lookup.                                                            *)
(***************************************************************************)
\* every entry of a parsed mapping with the segments that lead to it
RECURSIVE Paths(_, _)
Paths(node, prefix) ==
  UNION {{[path |-> Append(prefix, node[i].k), e |-> node[i]]}
           \cup (IF node[i].t = "map" THEN Paths(node[i].c, Append(prefix, node[i].k)) ELSE {})
         : i \in 1..Len(node)}

RECURSIVE Dotted(_)
Dotted(path) ==
  IF Len(path) = 1 THEN path[1] ELSE path[1] \o <<DOT>> \o Dotted(Tail(path))

\* the keys a store holds: the keys of its flat entries, the dotted paths of
\* the leaves of its tree
KeysHeld(store) ==
  IF store.type = "properties" THEN {store.reader[i].k : i \in 1..Len(store.reader)}
  ELSE IF store.type = "yaml"
  THEN {Dotted(p.path) : p \in {q \in Paths(store.yamlObject, <<>>) : q.e.t # "map"}}
  ELSE {}

\* a comes before b, comparing code units from the left, a prefix first
Before(a, b) ==
  \E n \in 0..Len(a) :
    /\ n <= Len(b)
    /\ \A i \in 1..n : a[i] = b[i]
    /\ \/ n = Len(a) /\ n < Len(b)
       \/ n < Len(a) /\ n < Len(b) /\ CharCode(a[n + 1]) < CharCode(b[n + 1])

\* C14: getAllKeys() is the union of the keys of all locale stores, each
\* key once, in ascending order, also when a key is held by several stores
\* and when flat and tree stores coexist.
C14_AllKeysSortedUnion ==
  phase = "keys" =>
    /\ {output[i] : i \in 1..Len(output)} = UNION {KeysHeld(input.index[l]) : l \in Locales}
    /\ \A i, j \in 1..Len(output) : i < j => Before(output[i], output[j])

C14_Witness ==
  /\ phase = "keys"
  /\ {input.index[l].type : l \in Locales} = {"properties", "yaml"}
  /\ \E l1, l2 \in Locales :
       l1 # l2 /\ Cardinality(KeysHeld(input.index[l1]) \cap KeysHeld(input.index[l2])) >= 2
  /\ Len(output) = 4

(***************************************************************************)
(* Locale of a file name.                                                  *)
(***************************************************************************)
IsLang(s) == Len(s) \in {2, 3} /\ \A j \in 1..Len(s) : s[j] \in Alpha

\* s reads <lang> or <lang>_<REGION>
IsLocaleText(s) ==
  \/ IsLang(s)
  \/ /\ Len(s) > 3
     /\ IsLang(SubSeq(s, 1, Len(s) - 3))
     /\ s[Len(s) - 2] = US
     /\ s[Len(s) - 1] \in Alpha
     /\ s[Len(s)] \in Alpha

\* the name without its translation extension, <<>> when it has none
BaseNames(name) ==
  {SubSeq(name, 1, Len(name) - Len(e)) : e \in {x \in TranslationExts : EndsWithText(name, x)}}

\* C15: a file whose name has no translation extension is not loaded; with
\* one, its locale is the longest trailing _<lang> or _<lang>_<REGION> of
\* the name before the extension, and `default` when there is none.
C15_LocaleOfFileName ==
  phase = "named" =>
    /\ BaseNames(input) = {} => output = <<>>
    /\ \A base \in BaseNames(input) :
         LET cuts == {k \in 1..Len(base) :
                        base[k] = US /\ IsLocaleText(SubSeq(base, k + 1, Len(base)))}
         IN output = IF cuts = {} THEN <<DefaultLocale>>
                     ELSE <<SubSeq(base, Min(cuts) + 1, Len(base))>>

C15_Witness ==
  /\ phase = "named"
  /\ input = <<US, "e", "e", US, "U", "U">> \o DotYml
  /\ output = <<<<"e", "e", US, "U", "U">>>>

(***************************************************************************)
(* Key scan.                                                               *)
(***************************************************************************)
\* two or more runs of word characters joined by single dots
IsKeyToken(k) ==
  /\ Len(k) >= 3
  /\ \A i \in 1..Len(k) : k[i] \in WordChars \cup {DOT}
  /\ k[1] # DOT /\ k[Len(k)] # DOT
  /\ \E i \in 1..Len(k) : k[i] = DOT
  /\ \A i \in 1..(Len(k) - 1) : ~(k[i] = DOT /\ k[i + 1] = DOT)

\* C16: the scan reports its matches from left to right without overlap;
\* every reported key is a token of two or more dot-joined segments, it is
\* group 1 of the match (the text between the quotes of the quoted
\* pattern) and the whole match for the pattern without a group; and with
\* the unquoted patterns no such token of the text is passed over.
C16_ScanReportsKeys ==
  phase = "scanned" =>
    LET text == input.text
        n    == Len(output)
    IN /\ \A i \in 1..n : 0 <= output[i].start /\ output[i].start < output[i].end
                          /\ output[i].end <= Len(text)
       /\ \A i \in 1..(n - 1) : output[i].end <= output[i + 1].start
       /\ \A i \in 1..n :
            /\ IsKeyToken(output[i].key)
            /\ IF input.pattern = "quoted"
               THEN /\ text[output[i].start + 1] = QUOTE
                    /\ text[output[i].end] = QUOTE
                    /\ output[i].key = Substring(text, output[i].start + 1, output[i].end - 1)
               ELSE output[i].key = Substring(text, output[i].start, output[i].end)
       /\ input.pattern # "quoted" =>
            \A s \in 0..Len(text), e \in 0..Len(text) :
              (s < e /\ IsKeyToken(Substring(text, s, e))) =>
                \E i \in 1..n : output[i].start <= s /\ e <= output[i].end

C16_Witness ==
  /\ phase = "scanned"
  /\ input.pattern = "quoted"
  /\ input.text = <<"a", QUOTE, "a", DOT, "1", QUOTE>>
  /\ output = <<[key |-> <<"a", DOT, "1">>, start |-> 1, end |-> 6]>>

(***************************************************************************)
(* Declined creation.                                                      *)
(***************************************************************************)
\* the step changes no file, not the index, and starts no reload in slot s
LeavesAllAsItWas(s) ==
  /\ disk' = disk /\ exists' = exists
  /\ propertiesCache' = propertiesCache /\ heap' = heap
  /\ published' = published
  /\ rl'[s] = NoReload

\* C17: a writeTranslation that finds no file for the locale and whose
\* user answers No, dismisses the question or enters no path does nothing:
\* from its call to its return no file is created or changed, the index
\* stays as it was, and no reload runs, so no event fires.
C17_DecliningIsNoOp ==
  [][\A s \in Slots :
       /\ (op'[s].kind = "write" /\ op'[s].pc \in {"prompt", "input"}) => LeavesAllAsItWas(s)
       /\ (op[s].pc = "prompt" /\ op'[s].pc # "input")
            => (op'[s].pc = "noop" /\ LeavesAllAsItWas(s))
       /\ (op[s].pc = "input" /\ op'[s].pc # "create")
            => (op'[s].pc = "noop" /\ LeavesAllAsItWas(s))]_vars

C17_Witness ==
  /\ op[1].kind = "write" /\ op[1].pc = "noop"
  /\ op[1].ext = "properties" /\ op[1].uri = ""
  /\ rl[1] = NoReload
  /\ workspaceFolders

(***************************************************************************)
(* Save with a changed key.                                                *)
(***************************************************************************)
\* C18: after a save with a changed key the old key resolves in no locale
\* and the new key resolves to the submitted value in every locale
\* submitted.
C18_SaveRenamesKey ==
  phase = "saved" =>
    \A l \in Locales :
      /\ getTranslation(input.key, l) = <<>>
      /\ getTranslation(input.newKey, l) = <<input.translations[l]>>

(***************************************************************************)
(* init().                                                                 *)
(***************************************************************************)
\* C19: however often init() is called it starts at most one reload, and
\* the promise it returns does not reject.
C19_InitOnceWithoutError ==
  /\ input.started <= 1
  /\ output # <<>> => rl[output[1]].rpc # "rejected"

(***************************************************************************)
(* One merge per file.                                                     *)
(***************************************************************************)
\* C20: within one reload a translation file is merged at most once, also
\* when several globs whose loads run concurrently match it: a load that
\* ends by merging its file is never the load of a file this reload has
\* merged already.
C20_FileMergedOnce ==
  [][\A s \in Slots :
       \A t \in rl[s].tasks :
         (/\ rl'[s].obj = rl[s].obj
          /\ t \notin rl'[s].tasks
          /\ t[2] \in rl'[s].loaded)
           => t[2] \notin rl[s].loaded]_vars

(***************************************************************************)
(* Values and sources in lock-step.                                        *)
(***************************************************************************)
\* C21: in every store of the published index a key resolves to a value
\* through getTranslation exactly when the store's keySource has an entry
\* for it.
C21_ValuesAndSourcesInLockStep ==
  \A l \in Locales :
    \A k \in Range(OMKeys(Index[l].keySource)) \cup StoreKeys(Index[l]) \cup QueryKeys :
      (getTranslation(k, l) # <<>>) <=> (getSourceFile(k, l) # <<>>)

(***************************************************************************)
(* Overlapping reloads.                                                    *)
(***************************************************************************)
Finishes(s) == rl[s].rpc = "ready" /\ rl'[s].rpc = "done"

\* C22: reloads that overlap build into different objects, an object is
\* changed only by the one running reload that builds into it, and the
\* published reference changes only when a reload finishes, to the object
\* that reload built, as it built it; that reload then fires its event and
\* its listener reads its own object.  So after two overlapping reloads the
\* index is the snapshot of the one that finished last.
C22_LastFinishedReloadWins ==
  /\ [](\A s, x \in Slots : (s # x /\ InFlight(s) /\ InFlight(x)) => rl[s].obj # rl[x].obj)
  /\ [][/\ \A s \in Slots :
             Finishes(s) => /\ propertiesCache' = rl[s].obj
                            /\ heap'[propertiesCache'] = heap[rl[s].obj]
                            /\ rl'[s].fired = rl[s].fired + 1
                            /\ rl'[s].seen = rl[s].obj
        /\ propertiesCache' # propertiesCache => \E s \in Slots : Finishes(s)
        /\ \A o \in DOMAIN heap \cap DOMAIN heap' :
             heap'[o] # heap[o] =>
               /\ o # propertiesCache
               /\ \E s \in Slots : /\ InFlight(s) /\ rl[s].obj = o
                                   /\ rl'[s].tasks # rl[s].tasks
                                   /\ \A x \in Slots \ {s} : rl'[x] = rl[x]]_vars

\* both reloads have finished, and the one started first published last
C22_Witness ==
  /\ rl[1].rpc = "done" /\ rl[2].rpc = "done"
  /\ rl[1].fired = 1 /\ rl[2].fired = 1
  /\ rl[1].obj # rl[2].obj
  /\ propertiesCache = rl[1].obj
  /\ Index # EmptyIndex

Rank(f) ==
  IF GlobMatches("G1", f) THEN 1
  ELSE IF GlobMatches("G2", f) THEN 2
  ELSE IF GlobMatches("G3", f) THEN 3
  ELSE IF GlobMatches("G4", f) THEN 4
  ELSE 5

\* C24: the files of a locale are merged in discovery order, in every
\* reload and so in the one that published the index.
C24_MergedInDiscoveryOrder ==
  \A l \in Locales :
    /\ \A i, j \in 1..Len(pubOrder[l]) :
         i < j => Rank(pubOrder[l][i]) <= Rank(pubOrder[l][j])
    /\ \A s \in Slots : \A i, j \in 1..Len(rl[s].order[l]) :
         i < j => Rank(rl[s].order[l][i]) <= Rank(rl[s].order[l][j])

(***************************************************************************)
(* Merge of two tree files.                                                *)
(***************************************************************************)
MapPaths(node)  == {p.path : p \in {q \in Paths(node, <<>>) : q.e.t = "map"}}
LeafPaths(node) == {p.path : p \in {q \in Paths(node, <<>>) : q.e.t # "map"}}

\* the paths of the two trees do not disagree on what is a mapping
Compatible(a, b) ==
  /\ MapPaths(a) \cap LeafPaths(b) = {}
  /\ LeafPaths(a) \cap MapPaths(b) = {}

\* C25: in the merge of an earlier and a later tree a path that is a
\* mapping in the earlier tree is still a mapping (a scalar of the later
\* tree does not replace it), every leaf of the earlier tree is still
\* reachable, with the later tree's value where the later tree has a leaf
\* at the same path, and every leaf of the later tree that does not meet
\* a mapping of the earlier one is reachable with its value.
C25_MergeCombinesKeyWise ==
  phase = "merged" =>
    /\ MapPaths(input.target) \subseteq MapPaths(output)
    /\ LeafPaths(input.target) \subseteq LeafPaths(output)
    /\ \A p \in Paths(input.source, <<>>) :
         (p.e.t # "map" /\ p.path \notin MapPaths(input.target))
           => \E q \in Paths(output, <<>>) : q.path = p.path /\ q.e = p.e

(***************************************************************************)
(* Files of the other format.                                              *)
(***************************************************************************)
FormatOf(f) == IF IsFlat(f) THEN "properties" ELSE "yaml"

\* C26: the store of a locale has the format of the first file the
\* publishing reload merged for it; a file of the other format merged later
\* is the source of no key of the store, and writeTranslation never picks
\* it as the file to edit (deleteKey edits the files keySource names).
C26_OtherFormatIsRejected ==
  \A l \in Locales :
    Len(pubOrder[l]) > 0 =>
      /\ Index[l].type = FormatOf(pubOrder[l][1])
      /\ \A i \in 1..Len(pubOrder[l]) :
           FormatOf(pubOrder[l][i]) # Index[l].type =>
             /\ \A j \in 1..Len(Index[l].keySource) : Index[l].keySource[j].v # pubOrder[l][i]
             /\ \A k \in QueryKeys : TargetUri(k, l) # pubOrder[l][i]

(***************************************************************************)
(* A key pattern that does not compile.                                    *)
(***************************************************************************)
\* C27: with a configured pattern that does not compile, the decoration and
\* the hover both scan with the built-in quoted pattern and report the
\* failure.
C27_FallbackPatternWithWarning ==
  (phase = "patterned" /\ input.keyRegex = "invalid") =>
    /\ output.pattern = "quoted"
    /\ output.keys = ScanKeys(input.text, "quoted", 0)
    /\ output.reported

(***************************************************************************)
(* A key whose line is not found in a tree file.                           *)
(***************************************************************************)
\* C28: when the line of the key is not found in a tree file, deletion logs
\* a warning and leaves the file as it is: no edit, no save, the same lines.
C28_NotFoundWarnsAndKeepsFile ==
  (phase = "fileDeleted" /\ KeyLineOf(input.doc, 1, Split(input.key), 0) = 0) =>
    /\ output.doc = input.doc
    /\ output.edits = 0
    /\ ~output.saved
    /\ output.log # <<>>

(***************************************************************************)
(* The index against the files once nothing is running.                    *)
(***************************************************************************)
\* what the content of file f gives for key (<<>>: nothing)
DefinedValue(content, f, key) ==
  IF IsFlat(f)
  THEN LET p == ReaderRead(<<>>, content) IN IF OMHas(p, key) THEN <<OMGet(p, key)>> ELSE <<>>
  ELSE IF YamlLoad(content).ok THEN GetYamlValue(YamlLoad(content).node, key) ELSE <<>>

\* the answers a reload of the files as they are now can give for key in
\* locale l: the value of one of the locale's files that define the key,
\* nothing when none does
FreshAnswers(key, l) ==
  LET found == {f \in exists : LocaleOf(f) = l /\ \E g \in Globs \cup {"B"} : GlobMatches(g, f)}
      given == {DefinedValue(disk[f], f, key) : f \in found} \ {<<>>}
  IN IF given = {} THEN {<<>>} ELSE given

\* C29: once the save has returned, every reload started has finished and
\* no file changes any more; the published index then answers every key in
\* every locale as a reload of the files as they are now would.
C29_QuiescentIndexReflectsFiles ==
  (phase = "saved" /\ \A s \in Slots : ~InFlight(s)) =>
    \A l \in Locales, k \in {KeyA, KeyAB, KeyC, <<"b">>} :
      getTranslation(k, l) \in FreshAnswers(k, l)

(***************************************************************************)
(* Progress of the key scan.                                               *)
(***************************************************************************)
\* C30: every iteration of the scan loop moves the scan position forward,
\* for every pattern that compiles, one that matches the empty text
\* included, so the loop ends.
C30_EachIterationAdvances ==
  [][(phase = "looping" /\ phase' = "looping")
       => output'.lastIndex > output.lastIndex]_vars

(***************************************************************************)
(* The creation step of writeTranslation.                                  *)
(***************************************************************************)
\* C31: the file-creation step of writeTranslation leaves the content of
\* every file that exists as it is: it never empties a file of the locale
\* that is there but gave the index no key.
C31_CreationKeepsExistingContent ==
  [][\A s \in Slots :
       (op[s].pc = "create" /\ op'[s].pc = "reloading")
         => \A f \in exists : disk'[f] = disk[f]]_vars

(***************************************************************************)
(* The frame of a tree write.                                              *)
(***************************************************************************)
\* C32: a tree write of key k leaves the value of every other key that
\* resolved in the file before as it was, also when a proper prefix of k
\* was a scalar leaf and when k was a mapping with children.
C32_TreeWriteKeepsOtherKeys ==
  phase = "treeWritten" =>
    \A k2 \in TreeWriteKeys \ {input.key} :
      GetYamlValue(YamlLoad(input.doc).node, k2) # <<>>
        => /\ YamlLoad(output).ok
           /\ GetYamlValue(YamlLoad(output).node, k2) = GetYamlValue(YamlLoad(input.doc).node, k2)

(***************************************************************************)
(* Listed keys resolve.                                                    *)
(***************************************************************************)
\* C33: every key getAllKeys() lists resolves through getTranslation in at
\* least one locale, keys of tree stores whose leaf is a boolean or null
\* included.
C33_ListedKeysResolve ==
  phase = "keys" =>
    \A i \in 1..Len(output) :
      \E l \in Locales : GetTranslationIn(input.index, output[i], l) # <<>>

(***************************************************************************)
(* The key tree view.                                                      *)
(***************************************************************************)
\* C34: once every group of the tree view has been expanded, every key of
\* getAllKeys() is shown as a leaf item, also when one key is a dot-prefix
\* of another.
C34_EveryKeyIsALeafItem ==
  (phase = "tree" /\ \A it \in output.items : ~it.isLeaf => it.keyPath \in output.expanded) =>
    \A k \in Range(input.keys) : \E it \in output.items : it.isLeaf /\ it.keyPath = k

(***************************************************************************)
(* extractI18nKey.                                                         *)
(***************************************************************************)
\* C35: when extractI18nKey has replaced the selection by the key, the key
\* resolves to the extracted text in the target locale; when its
\* writeTranslation was a no-op the selection still holds the text.
C35_ReplacesOnlyWhenWritten ==
  phase = "extracted" =>
    /\ output = input.key => getTranslation(input.key, input.targetLocale) = <<input.text>>
    /\ op[1].pc = "noop" => output = input.text

(***************************************************************************)
(* Reload after an outside change.                                         *)
(***************************************************************************)
\* C36: every change, creation or deletion of a translation file, flat or
\* tree, is eventually followed by the start of a reload.
C36_ChangeLeadsToReload ==
  (output.dirty # {}) ~> (output.dirty = {})
====
